---- MODULE Spec2Model ----
(***************************************************************************)
(* go-ddns-controller: the Provider and the Notifier reconcilers, the     *)
(* status patch engine and the condition ledger, as a state machine.      *)
(*                                                                         *)
(* The Kubernetes API server holds the stored objects (providers,         *)
(* notifier).  Each controller has one worker (controller-runtime's       *)
(* default MaxConcurrentReconciles), which runs one reconcile pass at a   *)
(* time; a pass is a sequence of steps, one per external call, and the    *)
(* two workers interleave between steps.  Every external call may fail;   *)
(* the number of failures is bounded by a fault budget.                   *)
(* lastTransitionTime of a condition is not modelled: it never decides    *)
(* whether a patch is sent.                                               *)
(***************************************************************************)
EXTENDS Integers, Sequences, FiniteSets, TLC

VARIABLES
    publicIP,       \* the public IP of the cluster, as the IP endpoints report it
    ipEpoch,        \* how many times the public IP has changed
    dnsIP,          \* per Provider: the IP the DNS provider has configured
    providers,      \* per Provider: the stored object (metadata, spec refs, status)
    notifier,       \* the stored Notifier object
    pFaults,        \* failures injected so far into Provider passes
    nFaults,        \* failures injected so far into Notifier passes
    pPc,            \* Provider worker: position in Reconcile
    pReq,           \* Provider worker: req.Name of the pass
    pMem,           \* Provider worker: the in-memory object `provider`
    pPublicIp,      \* Provider worker: local publicIp
    pProviderIp,    \* Provider worker: local providerIp
    pResult,        \* Provider worker: (ctrl.Result, error) of the pass
    pLog,           \* Provider worker: external calls of the pass, in order
    pEpoch,         \* Provider worker: ipEpoch at the time of IP discovery
    setIpOk,        \* per Provider and epoch: successful SetIp calls
    nPc,            \* Notifier worker: position in Reconcile
    nReq,           \* Notifier worker: req.NamespacedName of the pass
    nMem,           \* Notifier worker: the in-memory object `notifier`
    nReadyAtStart,  \* Notifier worker: status.isReady as read by Get
    nList,          \* Notifier worker: filteredProviders (snapshot of List)
    nIdx,           \* Notifier worker: index into filteredProviders
    nSecretOk,      \* Notifier worker: the Secret was fetched
    nResult,        \* Notifier worker: (ctrl.Result, error) of the pass
    nLog,           \* Notifier worker: external calls of the pass, in order
    nMessages,      \* Notifier worker: the messages passed to SendNotification in the pass, in order
    nQueued,        \* a reconcile request for the Notifier is in the work queue
    statusWrites,   \* Provider status writes seen by the Notifier controller alone
    annFailed,      \* per Provider: failed marker patches since providerIP last changed
    sentOk,         \* per Provider: successful sends of the stored providerIP since it last changed
    pQuiet,         \* per Provider, history: "yes" when its last pass succeeded and nothing changed
                    \* since that pass began; "off" when the history is not kept
    nGreeted,       \* history: "sent" after a successful SendGreetings, "stored" once isReady = true
                    \* was stored after it, "no" before and after a failed SendNotification; "off"
                    \* when the history is not kept
    nQuiet,         \* history: "yes" when the last Notifier pass had no error and no Provider
                    \* status changed since it began; "off" when the history is not kept
    now,            \* the clock that time.Now() reads
    cConds,         \* condition ledger: the list a Conditions value points to
    cPrev,          \* condition ledger: the list before the last call
    cCalls,         \* condition ledger: the calls so far, their arguments and what they returned
    ipCustom,       \* IP lookup: the customIpProvider argument of GetPublicIp
    ipAnswers,      \* IP lookup: per endpoint, what a GET of it yields
    ipQueried,      \* IP lookup: the endpoints GetBody was called on, in order
    ipReturn,       \* IP lookup: what GetPublicIp returned
    cfConfig,       \* Cloudflare: the zones of the client's Config
    cfListed,       \* Cloudflare: per zone, the DNS records the API lists
    cfFailAt,       \* Cloudflare: which API call of SetIp fails (0: none)
    cfCalls,        \* Cloudflare: the API calls of SetIp, in order
    cfReturn        \* Cloudflare: what SetIp returned

envVars == <<publicIP, ipEpoch, dnsIP>>
storeVars == <<providers, notifier>>
pVars == <<pPc, pReq, pMem, pPublicIp, pProviderIp, pResult, pLog, pEpoch, setIpOk, pFaults>>
nVars == <<nPc, nReq, nMem, nReadyAtStart, nSecretOk, nList, nIdx, nResult, nLog, nMessages, nFaults>>
qVars == <<nQueued, sentOk, annFailed>>
wVars == <<statusWrites>>
cVars == <<now, cConds, cPrev, cCalls>>
ipVars == <<ipCustom, ipAnswers, ipQueried, ipReturn>>
cfVars == <<cfConfig, cfListed, cfFailAt, cfCalls, cfReturn>>
libVars == <<ipVars, cfVars>>
vars == <<envVars, storeVars, pVars, nVars, qVars, wVars, pQuiet, nQuiet, nGreeted, cVars, libVars>>

----------------------------------------------------------------------------
(* Bounds *)

Providers == {"p1", "p2"}
IPs == {"1.1.1.1", "2.2.2.2"}
MaxIPChanges == 2
MaxGeneration == 2
MaxPFaults == 2
MaxNFaults == 2
MaxStatusWrites == 3

----------------------------------------------------------------------------
(* Program constants *)

NoIP == ""
RetryInterval == 900
GroupName == "ddns.stefangenov.site"
NotifierName == "n1"
NotifierNamespace == "default"
\* a second Notifier of the same namespace, seen only through its marker
OtherNotifierName == "n2"
ErrText == "boom"

\* p1 lives in the Notifier's namespace, p2 in another one; both name the
\* Notifier (name and namespace) in their notifierRefs
ProviderNamespace(p) == IF p = "p1" THEN "default" ELSE "other"
ProviderOrder(p) == IF p = "p1" THEN 1 ELSE 2
NotifierRequest == [name |-> NotifierName, namespace |-> NotifierNamespace]
StoredNotifiers ==
    {NotifierRequest, [name |-> OtherNotifierName, namespace |-> NotifierNamespace]}
\* spec.notifierRefs of the Providers as they are created
DefaultNotifierRefs ==
    <<[name |-> NotifierName, namespace |-> NotifierNamespace],
      [name |-> OtherNotifierName, namespace |-> NotifierNamespace]>>
NotifierRefs(p) == DefaultNotifierRefs

----------------------------------------------------------------------------
(* Condition ledger *)

\* the zero time.Time, the first reading of the clock and the last one
ZeroTime == 0
StartTime == 1
MaxTime == 3

\* a metav1.Condition literal: lastTransitionTime is left at its zero value
Condition(type, status, reason, message, generation) ==
    [type |-> type, status |-> status, reason |-> reason,
     message |-> message, observedGeneration |-> generation,
     lastTransitionTime |-> ZeroTime]

\* a condition as it stands after it was stamped at time t
Stamped(cond, t) == [cond EXCEPT !.lastTransitionTime = t]

\* index of the first condition of the type, 0 when there is none
FindStatusCondition(conds, type) ==
    IF \E i \in 1..Len(conds) : conds[i].type = type
    THEN CHOOSE i \in 1..Len(conds) :
            /\ conds[i].type = type
            /\ \A j \in 1..(i - 1) : conds[j].type # type
    ELSE 0

\* meta.SetStatusCondition at time t: append when absent, stamped unless the
\* new condition brings its own time; else overwrite the fields that differ,
\* and stamp when the status is one of them; changed tells whether anything
\* was written
SetStatusCondition(conds, new, t) ==
    LET i == FindStatusCondition(conds, new.type)
        stamp == IF new.lastTransitionTime # ZeroTime THEN new.lastTransitionTime ELSE t
    IN
    IF i = 0
    THEN [conds |-> Append(conds, Stamped(new, stamp)), changed |-> TRUE]
    ELSE LET old == conds[i]
             written == [new EXCEPT !.lastTransitionTime =
                            IF old.status # new.status THEN stamp ELSE old.lastTransitionTime]
         IN [conds |-> [conds EXCEPT ![i] = written],
             changed |-> \/ old.status # new.status
                         \/ old.reason # new.reason
                         \/ old.message # new.message
                         \/ old.observedGeneration # new.observedGeneration]

----------------------------------------------------------------------------
(* Stored objects *)

NoAnnotation == "<none>"

\* notifyOfChange's annotation key "<group>/<name>_<namespace>"
AnnotationKey(name, namespace) == GroupName \o "/" \o name \o "_" \o namespace

AnnotationKeys ==
    {AnnotationKey(NotifierName, NotifierNamespace),
     AnnotationKey(OtherNotifierName, NotifierNamespace)}

EmptyStatus ==
    [publicIP |-> NoIP, providerIP |-> NoIP, observedGeneration |-> 0, conditions |-> <<>>]

\* a Provider as the user creates it: no status, no annotation
NewProvider(exists) ==
    [exists |-> exists, generation |-> 1,
     notifierRefs |-> DefaultNotifierRefs,
     annotations |-> [k \in AnnotationKeys |-> NoAnnotation],
     status |-> EmptyStatus]

NewNotifier ==
    [generation |-> 1,
     status |-> [isReady |-> FALSE, observedGeneration |-> 0, conditions |-> <<>>]]

\* client.MergeFrom(base) applied through the status subresource: only the
\* status fields that differ between base and modified are sent and written
StatusMergePatch(stored, base, modified) ==
    [stored EXCEPT !.status =
        [f \in DOMAIN stored.status |->
            IF base.status[f] # modified.status[f] THEN modified.status[f]
            ELSE stored.status[f]]]

Outcomes(used, max) == IF used < max THEN {TRUE, FALSE} ELSE {TRUE}

Cost(ok) == IF ok THEN 0 ELSE 1

NoResult == [done |-> FALSE, err |-> FALSE, requeue |-> FALSE, requeueAfter |-> 0]
\* faulty variant: the error of the failed step is not returned
ErrResult_Dropped == [done |-> TRUE, err |-> FALSE, requeue |-> FALSE, requeueAfter |-> 0]
ErrResult == [done |-> TRUE, err |-> TRUE, requeue |-> FALSE, requeueAfter |-> 0]
EmptyResult == [done |-> TRUE, err |-> FALSE, requeue |-> FALSE, requeueAfter |-> 0]
\* faulty variant: the successful pass asks for an immediate requeue
RequeueAfterResult_NoDelay == [done |-> TRUE, err |-> FALSE, requeue |-> TRUE, requeueAfter |-> 0]
RequeueAfterResult == [done |-> TRUE, err |-> FALSE, requeue |-> TRUE, requeueAfter |-> RetryInterval]
\* faulty variant: markAsReady succeeded but Reconcile asks for no requeue
RequeueResult_None == [done |-> TRUE, err |-> FALSE, requeue |-> FALSE, requeueAfter |-> 0]
RequeueResult == [done |-> TRUE, err |-> FALSE, requeue |-> TRUE, requeueAfter |-> 0]

----------------------------------------------------------------------------
(* Provider reconciler *)

\* findObjectsForProvider: the requests a changed Provider enqueues, one per
\* notifierRef, named after the ref and placed in the Provider's namespace
findObjectsForProvider(p) ==
    [i \in 1..Len(providers[p].notifierRefs) |->
        [name |-> providers[p].notifierRefs[i].name, namespace |-> ProviderNamespace(p)]]

EnqueuesNotifier(p) ==
    \E i \in 1..Len(findObjectsForProvider(p)) :
        findObjectsForProvider(p)[i] = NotifierRequest

\* the watch on Providers (ResourceVersionChangedPredicate): every stored
\* change of a Provider enqueues the Notifiers it refers to
ProviderWatch ==
    /\ nQueued' = (nQueued \/ \E p \in Providers :
                        providers'[p] # providers[p] /\ EnqueuesNotifier(p))
    /\ sentOk' = [p \in Providers |->
                    IF providers'[p].status.providerIP # providers[p].status.providerIP
                    THEN 0 ELSE sentOk[p]]
    /\ annFailed' = [p \in Providers |->
                    IF providers'[p].status.providerIP # providers[p].status.providerIP
                    THEN 0 ELSE annFailed[p]]

\* faulty variant: NotFound is returned like any other error
IgnoreNotFound_Error == ErrResult

\* client.IgnoreNotFound(err) of a NotFound error: the empty result, no error
IgnoreNotFound == EmptyResult

PDone(result) ==
    /\ pPc' = "done"
    /\ pResult' = result

\* faulty variant: Status().Patch is called whatever apply reported
PatchStatus_Always(p, mutated, changed, ok, field) ==
    /\ IF ok
       THEN /\ providers' = [providers EXCEPT ![p] = StatusMergePatch(@, pMem, mutated)]
            /\ pMem' = StatusMergePatch(providers[p], pMem, mutated)
       ELSE /\ providers' = providers
            /\ pMem' = mutated
    /\ pLog' = Append(pLog, <<"patch", field, ok>>)
    /\ pFaults' = pFaults + Cost(ok)

\* PatchStatus: Status().Patch is called only when apply reported a change;
\* on success the response overwrites the in-memory object, on failure the
\* in-memory object keeps the mutation.  err is the returned error.
PatchStatus(p, mutated, changed, ok, field) ==
    /\ IF changed /\ ok
       THEN /\ providers' = [providers EXCEPT ![p] = StatusMergePatch(@, pMem, mutated)]
            /\ pMem' = StatusMergePatch(providers[p], pMem, mutated)
       ELSE /\ providers' = providers
            /\ pMem' = mutated
    /\ pLog' = IF changed THEN Append(pLog, <<"patch", field, ok>>) ELSE pLog
    /\ pFaults' = IF changed THEN pFaults + Cost(ok) ELSE pFaults

\* faulty variant: the error of a failed patch is not looked at
PatchStatusErr_Never(changed, ok) == FALSE

PatchStatusErr(changed, ok) == changed /\ ~ok

\* faulty variant: the publicIP write also marks the generation as observed
patchPublicIp_WithGeneration(provider, publicIp) ==
    [obj |-> [provider EXCEPT !.status.publicIP = publicIp,
                              !.status.observedGeneration = provider.generation],
     changed |-> provider.status.publicIP # publicIp
                    \/ provider.status.observedGeneration # provider.generation]

\* faulty variant: the discovered public IP is not stored
patchPublicIp_Skip(provider, publicIp) == [obj |-> provider, changed |-> FALSE]

patchPublicIp(provider, publicIp) ==
    IF provider.status.publicIP = publicIp
    THEN [obj |-> provider, changed |-> FALSE]
    ELSE [obj |-> [provider EXCEPT !.status.publicIP = publicIp], changed |-> TRUE]

\* faulty variant: the IP of the DNS record is not stored
patchProviderIp_Skip(provider, providerIp) == [obj |-> provider, changed |-> FALSE]

patchProviderIp(provider, providerIp) ==
    IF provider.status.providerIP = providerIp
    THEN [obj |-> provider, changed |-> FALSE]
    ELSE [obj |-> [provider EXCEPT !.status.providerIP = providerIp], changed |-> TRUE]

\* faulty variant: the generation is never marked as observed
patchObservedGeneration_Skip(provider) == [obj |-> provider, changed |-> FALSE]

patchObservedGeneration(provider) ==
    IF provider.status.observedGeneration = provider.generation
    THEN [obj |-> provider, changed |-> FALSE]
    ELSE [obj |-> [provider EXCEPT !.status.observedGeneration = provider.generation],
          changed |-> TRUE]

\* faulty variant: the condition is not recorded
UpdateConditions_Skip(provider, condition, t) == [obj |-> provider, changed |-> FALSE]

\* faulty variant: a change is reported whatever meta.SetStatusCondition said
UpdateConditions_AlwaysChanged(provider, condition, t) ==
    LET r == SetStatusCondition(provider.status.conditions,
                [condition EXCEPT !.observedGeneration = provider.generation], t)
    IN [obj |-> [provider EXCEPT !.status.conditions = r.conds], changed |-> TRUE]

\* UpdateConditions: the condition takes the object's generation and goes
\* through PatchStatus; the error of PatchStatus is dropped
UpdateConditions(provider, condition, t) ==
    LET r == SetStatusCondition(provider.status.conditions,
                [condition EXCEPT !.observedGeneration = provider.generation], t)
    IN [obj |-> [provider EXCEPT !.status.conditions = r.conds], changed |-> r.changed]

\* faulty variant: no event filter
UpdateFunc_NoFilter(objectNew) == TRUE

\* SetupWithManager, WithEventFilter: the UpdateFunc of the predicate, on
\* e.ObjectNew
UpdateFunc(objectNew) == objectNew.status.observedGeneration # objectNew.generation

\* an update event of Provider p, and whether it passes the event filter and
\* so puts a request for p into the queue of the Provider controller
UpdateEvent(p) == providers[p].exists /\ providers'[p].exists /\ providers'[p] # providers[p]
TriggersProviderPass(p) == UpdateEvent(p) /\ UpdateFunc(providers'[p])

\* r.Get(provider): NotFound ends the pass without error, any other error
\* is returned
PGet(p) ==
    /\ pPc = "idle"
    /\ pReq' = p
    /\ pLog' = <<>>
    /\ IF ~providers[p].exists
       THEN /\ PDone(IgnoreNotFound)
            /\ UNCHANGED <<pMem, pFaults>>
       ELSE \E ok \in Outcomes(pFaults, MaxPFaults) :
            /\ pFaults' = pFaults + Cost(ok)
            /\ IF ok
               THEN /\ pMem' = providers[p]
                    /\ pPc' = "discover"
                    /\ UNCHANGED pResult
               ELSE /\ PDone(ErrResult)
                    /\ UNCHANGED pMem
    /\ pQuiet' = [pQuiet EXCEPT ![p] = IF @ \in {"off", "yes"} THEN @ ELSE "running"]
    /\ UNCHANGED <<nGreeted, libVars, cVars, nQuiet, wVars, envVars, storeVars, nVars, qVars, pPublicIp, pProviderIp, pEpoch, setIpOk>>

\* r.IPProvider()
PDiscoverIp ==
    /\ pPc = "discover"
    /\ \E ok \in Outcomes(pFaults, MaxPFaults) :
        /\ pFaults' = pFaults + Cost(ok)
        /\ pLog' = Append(pLog, <<"IPProvider", publicIP, ok>>)
        /\ IF ok
           THEN /\ pPublicIp' = publicIP
                /\ pEpoch' = ipEpoch
                /\ pPc' = "patchPublicIp"
                /\ UNCHANGED pResult
           ELSE /\ PDone(ErrResult)
                /\ UNCHANGED <<pPublicIp, pEpoch>>
    /\ UNCHANGED <<nGreeted, libVars, cVars, pQuiet, nQuiet, wVars, envVars, storeVars, nVars, qVars, pReq, pMem, pProviderIp, setIpOk>>

\* PatchStatus(patchPublicIp(publicIp))
PPatchPublicIp ==
    /\ pPc = "patchPublicIp"
    /\ LET m == patchPublicIp(pMem, pPublicIp) IN
       \E ok \in Outcomes(pFaults, MaxPFaults) :
        /\ (~m.changed) => ok
        /\ PatchStatus(pReq, m.obj, m.changed, ok, "publicIP")
        /\ IF PatchStatusErr(m.changed, ok)
           THEN PDone(ErrResult)
           ELSE pPc' = "fetchSecret" /\ UNCHANGED pResult
    /\ ProviderWatch
    /\ UNCHANGED <<nGreeted, libVars, cVars, pQuiet, nQuiet, wVars, envVars, notifier, nVars, pReq, pPublicIp, pProviderIp, pEpoch, setIpOk>>

\* one gate of FetchClient: the call (Get of the Secret, Get of the
\* ConfigMap, or the ClientFactory), then UpdateConditions with its outcome
PGate(pc, call, type, reason, okMsg, errMsg, next) ==
    /\ pPc = pc
    /\ \E callOk \in Outcomes(pFaults, MaxPFaults) :
       LET status == IF callOk THEN "True" ELSE "False"
           message == IF callOk THEN okMsg ELSE errMsg
           m == UpdateConditions(pMem, Condition(type, status, reason, message, 0), now)
       IN \E ok \in Outcomes(pFaults + Cost(callOk), MaxPFaults) :
            /\ (~m.changed) => ok
            /\ IF m.changed /\ ok
               THEN /\ providers' = [providers EXCEPT ![pReq] = StatusMergePatch(@, pMem, m.obj)]
                    /\ pMem' = StatusMergePatch(providers[pReq], pMem, m.obj)
               ELSE /\ providers' = providers
                    /\ pMem' = m.obj
            /\ pLog' = pLog \o <<<<call, "", callOk>>>>
                         \o (IF m.changed THEN <<<<"patch", type, ok>>>> ELSE <<>>)
            /\ pFaults' = pFaults + Cost(callOk) + (IF m.changed THEN Cost(ok) ELSE 0)
            /\ IF callOk
               THEN pPc' = next /\ UNCHANGED pResult
               ELSE PDone(ErrResult)
    /\ ProviderWatch
    /\ UNCHANGED <<nGreeted, libVars, cVars, pQuiet, nQuiet, wVars, envVars, notifier, nVars, pReq, pPublicIp, pProviderIp, pEpoch, setIpOk>>

PFetchSecret ==
    PGate("fetchSecret", "GetSecret", "Secret", "SecretFound",
          "Secret found", "Secret not found", "fetchConfig")

PFetchConfig ==
    PGate("fetchConfig", "GetConfigMap", "ConfigMap", "ConfigMapFound",
          "ConfigMap found", "ConfigMap not found", "createClient")

PCreateClient ==
    PGate("createClient", "ClientFactory", "Client", "ClientCreated",
          "Client created", "could not create client: " \o ErrText, "getIp")

\* faulty variant: the stored status is taken for the DNS provider's answer
GetIp_FromStatus(p, provider) == provider.status.providerIP

\* what GetIp returns: the IP of the DNS record, never the stored status
GetIp(p, provider) == dnsIP[p]

\* providerClient.GetIp()
PGetIp ==
    /\ pPc = "getIp"
    /\ \E ok \in Outcomes(pFaults, MaxPFaults) :
        /\ pFaults' = pFaults + Cost(ok)
        /\ pLog' = Append(pLog, <<"GetIp", GetIp(pReq, pMem), ok>>)
        /\ IF ok
           THEN /\ pProviderIp' = GetIp(pReq, pMem)
                /\ pPc' = "patchProviderIp"
                /\ UNCHANGED pResult
           ELSE /\ PDone(ErrResult)
                /\ UNCHANGED pProviderIp
    /\ UNCHANGED <<nGreeted, libVars, cVars, pQuiet, nQuiet, wVars, envVars, storeVars, nVars, qVars, pReq, pMem, pPublicIp, pEpoch, setIpOk>>

\* faulty variants: SetIp on every pass, and on none
Desynced_Always(provider) == TRUE

Desynced_Never(provider) == FALSE

\* the desync test of Reconcile, on the in-memory status
Desynced(provider) == provider.status.publicIP # provider.status.providerIP

\* PatchStatus(patchProviderIp(providerIp)), then the desync test
PPatchProviderIp ==
    /\ pPc = "patchProviderIp"
    /\ LET m == patchProviderIp(pMem, pProviderIp) IN
       \E ok \in Outcomes(pFaults, MaxPFaults) :
        /\ (~m.changed) => ok
        /\ PatchStatus(pReq, m.obj, m.changed, ok, "providerIP")
        /\ IF PatchStatusErr(m.changed, ok)
           THEN PDone(ErrResult)
           ELSE /\ pPc' = IF Desynced(pMem') THEN "setIp" ELSE "patchObservedGeneration"
                /\ UNCHANGED pResult
    /\ ProviderWatch
    /\ UNCHANGED <<nGreeted, libVars, cVars, pQuiet, nQuiet, wVars, envVars, notifier, nVars, pReq, pPublicIp, pProviderIp, pEpoch, setIpOk>>

\* providerClient.SetIp(provider.Status.PublicIP)
PSetIp ==
    /\ pPc = "setIp"
    /\ \E ok \in Outcomes(pFaults, MaxPFaults) :
        /\ pFaults' = pFaults + Cost(ok)
        /\ pLog' = Append(pLog, <<"SetIp", pMem.status.publicIP, ok>>)
        /\ IF ok
           THEN /\ dnsIP' = [dnsIP EXCEPT ![pReq] = pMem.status.publicIP]
                /\ setIpOk' = [setIpOk EXCEPT ![pReq][pEpoch] = @ + 1]
                /\ pPc' = "patchSetProviderIp"
                /\ UNCHANGED pResult
           ELSE /\ PDone(ErrResult)
                /\ UNCHANGED <<dnsIP, setIpOk>>
    /\ UNCHANGED <<nGreeted, libVars, cVars, pQuiet, nQuiet, wVars, publicIP, ipEpoch, storeVars, nVars, qVars, pReq, pMem, pPublicIp, pProviderIp, pEpoch>>

\* PatchStatus(patchProviderIp(provider.Status.PublicIP))
PPatchSetProviderIp ==
    /\ pPc = "patchSetProviderIp"
    /\ LET m == patchProviderIp(pMem, pMem.status.publicIP) IN
       \E ok \in Outcomes(pFaults, MaxPFaults) :
        /\ (~m.changed) => ok
        /\ PatchStatus(pReq, m.obj, m.changed, ok, "providerIP")
        /\ IF PatchStatusErr(m.changed, ok)
           THEN PDone(ErrResult)
           ELSE pPc' = "patchObservedGeneration" /\ UNCHANGED pResult
    /\ ProviderWatch
    /\ UNCHANGED <<nGreeted, libVars, cVars, pQuiet, nQuiet, wVars, envVars, notifier, nVars, pReq, pPublicIp, pProviderIp, pEpoch, setIpOk>>

\* PatchStatus(patchObservedGeneration()), then the requeue result
PPatchObservedGeneration ==
    /\ pPc = "patchObservedGeneration"
    /\ LET m == patchObservedGeneration(pMem) IN
       \E ok \in Outcomes(pFaults, MaxPFaults) :
        /\ (~m.changed) => ok
        /\ PatchStatus(pReq, m.obj, m.changed, ok, "observedGeneration")
        /\ IF PatchStatusErr(m.changed, ok)
           THEN PDone(ErrResult)
           ELSE PDone(RequeueAfterResult)
    /\ ProviderWatch
    /\ UNCHANGED <<nGreeted, libVars, cVars, pQuiet, nQuiet, wVars, envVars, notifier, nVars, pReq, pPublicIp, pProviderIp, pEpoch, setIpOk>>

\* the pass has returned; the worker takes the next request
PReturn ==
    /\ pPc = "done"
    /\ pPc' = "idle"
    /\ pMem' = NewProvider(FALSE)
    /\ pPublicIp' = NoIP
    /\ pProviderIp' = NoIP
    /\ pEpoch' = 0
    /\ pResult' = NoResult
    /\ pLog' = <<>>
    /\ pQuiet' = [pQuiet EXCEPT ![pReq] = IF @ = "off" THEN @
                                           ELSE IF pResult.err \/ @ = "no" THEN "no" ELSE "yes"]
    /\ UNCHANGED <<nGreeted, libVars, cVars, nQuiet, wVars, envVars, storeVars, nVars, qVars, pReq, pFaults, setIpOk>>

----------------------------------------------------------------------------
(* Environment *)

\* the ISP hands out another address
ChangePublicIP ==
    /\ ipEpoch < MaxIPChanges
    /\ \E ip \in IPs \ {publicIP} : publicIP' = ip
    /\ ipEpoch' = ipEpoch + 1
    /\ pQuiet' = [p \in Providers |-> IF pQuiet[p] = "off" THEN "off" ELSE "no"]
    /\ UNCHANGED <<nGreeted, libVars, cVars, nQuiet, wVars, dnsIP, storeVars, pVars, nVars, qVars>>

\* the user edits the spec of a Provider: metadata.generation is bumped
EditProviderSpec(p) ==
    /\ providers[p].exists
    /\ providers[p].generation < MaxGeneration
    /\ providers' = [providers EXCEPT ![p].generation = @ + 1]
    /\ ProviderWatch
    /\ pQuiet' = [pQuiet EXCEPT ![p] = IF @ = "off" THEN @ ELSE "no"]
    /\ UNCHANGED <<nGreeted, libVars, cVars, nQuiet, wVars, envVars, notifier, pVars, nVars>>


----------------------------------------------------------------------------
(* Notifier reconciler: condition ledger and status patches *)

NotifierConditionTypes == <<"ConfigMap", "Secret", "Client">>

\* Provider.Conditions(): the declared types of a Provider
ProviderConditionTypes == <<"Client", "ConfigMap", "Secret">>

TypesOf(types) == {types[i] : i \in 1..Len(types)}

UnknownCondition(type) == Condition(type, "Unknown", "Unknown", "Unknown", 0)

\* addUnknownCondition through meta.SetStatusCondition
addUnknownCondition(conds, type, t) == SetStatusCondition(conds, UnknownCondition(type), t)

\* faulty variant: the placeholder is written over a condition that is there
RECURSIVE FillFrom_Overwrite(_, _, _, _)
FillFrom_Overwrite(conds, types, i, t) ==
    IF i > Len(types) THEN conds
    ELSE FillFrom_Overwrite(addUnknownCondition(conds, types[i], t).conds, types, i + 1, t)

RECURSIVE FillFrom(_, _, _, _)
FillFrom(conds, types, i, t) ==
    IF i > Len(types) THEN conds
    ELSE IF FindStatusCondition(conds, types[i]) # 0
         THEN FillFrom(conds, types, i + 1, t)
         ELSE FillFrom(addUnknownCondition(conds, types[i], t).conds, types, i + 1, t)

\* faulty variant: no placeholder is inserted
FillConditions_Skip(conds, types, t) == [conds |-> conds, changed |-> FALSE]

\* Conditions.FillConditions
FillConditions(conds, types, t) ==
    [conds |-> FillFrom(conds, types, 1, t), changed |-> FillFrom(conds, types, 1, t) # conds]

\* condition options: each writes one field and reports whether it changed
WithReason(reason) == [field |-> "reason", value |-> reason]
WithMessage(message) == [field |-> "message", value |-> message]
WithReasonAndMessage(reason, message) == <<WithReason(reason), WithMessage(message)>>
True == <<[field |-> "status", value |-> "True"]>>
False == <<[field |-> "status", value |-> "False"]>>
WithObservedGeneration(generation) == <<[field |-> "observedGeneration", value |-> generation]>>

RECURSIVE ApplyOptions(_, _, _, _)
ApplyOptions(cond, options, i, changed) ==
    IF i > Len(options) THEN [cond |-> cond, changed |-> changed]
    ELSE LET o == options[i] IN
         ApplyOptions([cond EXCEPT ![o.field] = o.value], options, i + 1,
                      changed \/ cond[o.field] # o.value)

\* faulty variant: the condition is stamped whether or not it changed
SetCondition_AlwaysStamp(conds, type, options, t) ==
    LET created == FindStatusCondition(conds, type) = 0
        conds1 == IF created THEN addUnknownCondition(conds, type, t).conds ELSE conds
        i == FindStatusCondition(conds1, type)
        r == ApplyOptions(conds1[i], options, 1, created)
    IN [conds |-> [conds1 EXCEPT ![i] = Stamped(r.cond, t)], changed |-> r.changed]

\* Conditions.SetCondition at time t: the condition is stamped when it was
\* created or an option reported a change
SetCondition(conds, type, options, t) ==
    LET created == FindStatusCondition(conds, type) = 0
        conds1 == IF created THEN addUnknownCondition(conds, type, t).conds ELSE conds
        i == FindStatusCondition(conds1, type)
        r == ApplyOptions(conds1[i], options, 1, created)
    IN [conds |-> [conds1 EXCEPT ![i] = IF r.changed THEN Stamped(r.cond, t) ELSE r.cond],
        changed |-> r.changed]

\* the mutation of PatchConditions on the in-memory object
PatchConditionsApply(obj, type, options, t) ==
    LET r == SetCondition(obj.status.conditions, type,
                          options \o WithObservedGeneration(obj.generation), t)
    IN [obj |-> [obj EXCEPT !.status.conditions = r.conds], changed |-> r.changed]

patchIsReady(obj, isReady) ==
    IF obj.status.isReady = isReady
    THEN [obj |-> obj, changed |-> FALSE]
    ELSE [obj |-> [obj EXCEPT !.status.isReady = isReady], changed |-> TRUE]

patchNotifierObservedGeneration(obj) ==
    IF obj.status.observedGeneration = obj.generation
    THEN [obj |-> obj, changed |-> FALSE]
    ELSE [obj |-> [obj EXCEPT !.status.observedGeneration = obj.generation],
          changed |-> TRUE]

LogEntry(call, p, ip, ok) == [call |-> call, p |-> p, ip |-> ip, ok |-> ok]

\* patchStatus / PatchConditions on the Notifier: st is the stored object,
\* the in-memory object and the call log; m the mutation; ok the outcome of
\* Status().Patch, which is called only when the mutation reported a change
NotifierPatch(st, m, ok, what) ==
    IF m.changed /\ ok
    THEN LET s2 == StatusMergePatch(st.stored, st.mem, m.obj) IN
         [stored |-> s2, mem |-> s2,
          log |-> Append(st.log, LogEntry("patch", what, "", TRUE))]
    ELSE [stored |-> st.stored, mem |-> m.obj,
          log |-> IF m.changed THEN Append(st.log, LogEntry("patch", what, "", FALSE))
                  ELSE st.log]

NState == [stored |-> notifier, mem |-> nMem, log |-> nLog]

\* an external call of the pass, recorded in the call log
NCall(st, entry) == [st EXCEPT !.log = Append(@, entry)]

\* the pass writes back st; a changed stored Notifier is a watch event for
\* the Notifier controller itself
NCommit(st) ==
    \E s \in {st} :
        /\ notifier' = s.stored
        /\ nMem' = s.mem
        /\ nLog' = s.log
        /\ nQueued' = (nQueued \/ s.stored # notifier)

NDone(result) ==
    /\ nPc' = "done"
    /\ nResult' = result


----------------------------------------------------------------------------
(* Notifier reconciler *)

\* faulty variant: no readiness test
AfterFetchNotifier_AlwaysList(obj) == "list"

\* faulty variant: every pass greets
AfterFetchNotifier_AlwaysGreet(obj) == "sendGreetings"

\* the readiness test of Reconcile: greet first, notify only when ready
AfterFetchNotifier(obj) == IF ~obj.status.isReady THEN "sendGreetings" ELSE "list"

\* faulty variant: the outcome of SendGreetings is not looked at
GreetingOptions_AlwaysTrue(callOk) ==
    WithReasonAndMessage("ClientCommunication", "Communications established") \o True

\* the condition options markAsReady records for the outcome of SendGreetings
GreetingOptions(callOk) ==
    IF callOk
    THEN WithReasonAndMessage("ClientCommunication", "Communications established") \o True
    ELSE WithReasonAndMessage("ClientCommunication",
            "unable to send greetings: " \o ErrText) \o False

\* r.Get(notifier), then FillConditions on the in-memory object
NGet ==
    /\ nPc = "idle"
    /\ nQueued
    /\ \E ok \in Outcomes(nFaults, MaxNFaults) :
        /\ nFaults' = nFaults + Cost(ok)
        /\ IF ok
           THEN /\ nMem' = [notifier EXCEPT !.status.conditions =
                               FillConditions(@, NotifierConditionTypes, now).conds]
                /\ nReadyAtStart' = notifier.status.isReady
                /\ nPc' = "fetchConfig"
                /\ UNCHANGED nResult
           ELSE /\ NDone(ErrResult)
                /\ UNCHANGED <<nMem, nReadyAtStart>>
    /\ nQueued' = FALSE
    /\ nLog' = <<>>
    /\ nMessages' = <<>>
    /\ nQuiet' = IF nQuiet \in {"off", "yes"} THEN nQuiet ELSE "running"
    /\ UNCHANGED <<nGreeted, libVars, cVars, pQuiet, nReq, wVars, envVars, storeVars, pVars, nSecretOk, nList, nIdx, sentOk, annFailed>>

\* the requests that name no stored Notifier: the ones findObjectsForProvider
\* places in the namespace of a Provider that lives elsewhere
MissingRequests ==
    UNION {{findObjectsForProvider(p)[i] : i \in 1..Len(findObjectsForProvider(p))} : p \in Providers}
        \ StoredNotifiers

\* Reconcile of a request whose Notifier does not exist: r.Get returns
\* NotFound and the pass is over
NGetNotFound ==
    /\ nPc = "idle"
    /\ \E r \in MissingRequests : nReq' = r
    /\ NDone(IgnoreNotFound)
    /\ nLog' = <<>>
    /\ nMessages' = <<>>
    /\ UNCHANGED <<nGreeted, libVars, cVars, pQuiet, nQuiet, wVars, envVars, storeVars, pVars, nMem, nReadyAtStart, nSecretOk,
                   nList, nIdx, nFaults, qVars>>

\* fetchConfig: Get of the ConfigMap, PatchConditions, the error is returned
NFetchConfig ==
    /\ nPc = "fetchConfig"
    /\ \E callOk \in Outcomes(nFaults, MaxNFaults) :
       LET options == IF callOk
                      THEN WithReasonAndMessage("ConfigMapFound", "ConfigMap found") \o True
                      ELSE WithReasonAndMessage("ConfigMapFound", ErrText) \o False
       IN \E m \in {PatchConditionsApply(nMem, "ConfigMap", options, now)} :
          \E ok \in Outcomes(nFaults + Cost(callOk), MaxNFaults) :
            /\ (~m.changed) => ok
            /\ NCommit(NotifierPatch(NCall(NState, LogEntry("GetConfigMap", "", "", callOk)),
                                  m, ok, "ConfigMap"))
            /\ nFaults' = nFaults + Cost(callOk) + Cost(ok)
            /\ IF callOk
               THEN nPc' = "fetchSecret" /\ UNCHANGED nResult
               ELSE NDone(ErrResult)
    /\ UNCHANGED <<nGreeted, libVars, nMessages, cVars, pQuiet, nReq, nQuiet, wVars, envVars, providers, pVars, nReadyAtStart, nSecretOk, nList, nIdx, sentOk, annFailed>>

\* fetchSecret: Get of the Secret, PatchConditions; it returns a nil error
\* whatever Get returned, so the pass goes on with an empty Secret
NFetchSecret ==
    /\ nPc = "fetchSecret"
    /\ \E callOk \in Outcomes(nFaults, MaxNFaults) :
       LET options == IF callOk
                      THEN WithReasonAndMessage("SecretFound", "Secret found") \o True
                      ELSE WithReasonAndMessage("SecretFound", ErrText) \o False
       IN \E m \in {PatchConditionsApply(nMem, "Secret", options, now)} :
          \E ok \in Outcomes(nFaults + Cost(callOk), MaxNFaults) :
            /\ (~m.changed) => ok
            /\ NCommit(NotifierPatch(NCall(NState, LogEntry("GetSecret", "", "", callOk)),
                                  m, ok, "Secret"))
            /\ nFaults' = nFaults + Cost(callOk) + Cost(ok)
            /\ nSecretOk' = callOk
            /\ nPc' = "createNotifier"
    /\ UNCHANGED <<nGreeted, libVars, nMessages, cVars, pQuiet, nReq, nQuiet, wVars, envVars, providers, pVars, nReadyAtStart, nList, nIdx, nResult, sentOk, annFailed>>

\* NotifierFactory and PatchConditions; an empty Secret has no `url`, which
\* the factory rejects; then the readiness test of Reconcile
NCreateNotifier ==
    /\ nPc = "createNotifier"
    /\ \E callOk \in (IF nSecretOk THEN Outcomes(nFaults, MaxNFaults) ELSE {FALSE}) :
       LET cost == IF nSecretOk THEN Cost(callOk) ELSE 0
           options == IF callOk
                      THEN WithReasonAndMessage("ClientCreated", "Client created") \o True
                      ELSE WithReasonAndMessage("ClientCreated",
                               "could not create client: " \o ErrText) \o False
       IN \E m \in {PatchConditionsApply(nMem, "Client", options, now)} :
          \E ok \in Outcomes(nFaults + cost, MaxNFaults) :
            /\ (~m.changed) => ok
            /\ NCommit(NotifierPatch(NCall(NState, LogEntry("NotifierFactory", "", "", callOk)),
                                  m, ok, "Client"))
            /\ nFaults' = nFaults + cost + Cost(ok)
            /\ IF callOk
               THEN /\ nPc' = AfterFetchNotifier(nMem')
                    /\ UNCHANGED nResult
               ELSE NDone(ErrResult)
    /\ UNCHANGED <<nGreeted, libVars, nMessages, cVars, pQuiet, nReq, nQuiet, wVars, envVars, providers, pVars, nReadyAtStart, nSecretOk, nList, nIdx, sentOk, annFailed>>

\* markAsReady, first half: SendGreetings, then PatchConditions with the
\* outcome; a failed greeting ends the pass with the error
NSendGreetings ==
    /\ nPc = "sendGreetings"
    /\ \E callOk \in Outcomes(nFaults, MaxNFaults) :
       \E m \in {PatchConditionsApply(nMem, "Client", GreetingOptions(callOk), now)} :
          \E ok \in Outcomes(nFaults + Cost(callOk), MaxNFaults) :
            /\ (~m.changed) => ok
            /\ NCommit(NotifierPatch(NCall(NState, LogEntry("SendGreetings", "", "", callOk)),
                                     m, ok, "Client"))
            /\ nFaults' = nFaults + Cost(callOk) + Cost(ok)
            /\ IF callOk
               THEN nPc' = "patchIsReady" /\ UNCHANGED nResult
               ELSE NDone(ErrResult)
            /\ nGreeted' = IF nGreeted # "off" /\ callOk THEN "sent" ELSE nGreeted
    /\ UNCHANGED <<libVars, nMessages, cVars, pQuiet, nReq, nQuiet, wVars, envVars, providers, pVars, nReadyAtStart, nSecretOk, nList, nIdx, sentOk, annFailed>>

\* markAsReady, second half: patchStatus(patchIsReady(true)); Reconcile then
\* returns Result{Requeue: true}
NPatchIsReady ==
    /\ nPc = "patchIsReady"
    /\ \E m \in {patchIsReady(nMem, TRUE)} :
       \E ok \in Outcomes(nFaults, MaxNFaults) :
        /\ (~m.changed) => ok
        /\ NCommit(NotifierPatch(NState, m, ok, "isReady"))
        /\ nFaults' = nFaults + Cost(ok)
        /\ IF m.changed /\ ~ok THEN NDone(ErrResult) ELSE NDone(RequeueResult)
        /\ nGreeted' = IF nGreeted # "off" /\ m.changed /\ ok THEN "stored" ELSE nGreeted
    /\ UNCHANGED <<libVars, nMessages, cVars, pQuiet, nReq, nQuiet, wVars, envVars, providers, pVars, nReadyAtStart, nSecretOk, nList, nIdx, sentOk, annFailed>>

\* the Providers of the list whose notifierRefs name this Notifier
RefersTo(provider, name) ==
    \E i \in 1..Len(provider.notifierRefs) : provider.notifierRefs[i].name = name

RECURSIVE FilterProviders(_, _)
FilterProviders(items, name) ==
    IF items = <<>> THEN <<>>
    ELSE (IF RefersTo(Head(items).obj, name) THEN <<Head(items)>> ELSE <<>>)
            \o FilterProviders(Tail(items), name)

\* the items of r.List(providers): the existing Providers as stored, by name
RECURSIVE ListItems(_)
ListItems(ps) ==
    IF ps = {} THEN <<>>
    ELSE LET p == CHOOSE x \in ps : \A y \in ps : x = y \/ ProviderOrder(x) < ProviderOrder(y)
         IN <<[name |-> p, obj |-> providers[p]]>> \o ListItems(ps \ {p})

\* r.List(providers) and the filter on notifierRefs
NList ==
    /\ nPc = "list"
    /\ \E ok \in Outcomes(nFaults, MaxNFaults) :
        /\ nFaults' = nFaults + Cost(ok)
        /\ nLog' = Append(nLog, LogEntry("List", "", "", ok))
        /\ IF ok
           THEN /\ nList' = FilterProviders(ListItems({p \in Providers : providers[p].exists}),
                                            NotifierName)
                /\ nIdx' = 1
                /\ nPc' = "notify"
                /\ UNCHANGED nResult
           ELSE /\ NDone(ErrResult)
                /\ UNCHANGED <<nList, nIdx>>
    /\ UNCHANGED <<nGreeted, libVars, nMessages, cVars, pQuiet, nReq, nQuiet, wVars, envVars, storeVars, pVars, nMem, nReadyAtStart, nSecretOk, qVars>>

\* faulty variants: without the empty test, and without the marker test
NeedsNotification_NoEmptyTest(provider, key) ==
    ~(provider.annotations[key] # NoAnnotation
        /\ provider.annotations[key] = provider.status.providerIP)

NeedsNotification_NoMarker(provider, key) == provider.status.providerIP # NoIP

\* notifyOfChange's test: nothing to do when the marker holds the providerIP
\* or the providerIP is empty
NeedsNotification(provider, key) ==
    /\ ~(provider.annotations[key] # NoAnnotation
            /\ provider.annotations[key] = provider.status.providerIP)
    /\ provider.status.providerIP # NoIP

\* faulty variant: the message does not look at the public IP
Message_InSync(name, provider) ==
    "Provider IP (" \o provider.status.providerIP
        \o ") in sync with Public IP. From provider: (" \o name \o ")."

\* the message of notifyOfChange
Message(name, provider) ==
    IF provider.status.providerIP = provider.status.publicIP
    THEN "Provider IP (" \o provider.status.providerIP
            \o ") in sync with Public IP. From provider: (" \o name \o ")."
    ELSE "Provider IP (" \o provider.status.providerIP
            \o ") out of sync with Public IP (" \o provider.status.publicIP
            \o "). From provider: (" \o name \o ")."

ThisKey == AnnotationKey(NotifierName, NotifierNamespace)

\* notifyOfChange returns nil without a call: the loop takes the next Provider
NSkip ==
    /\ nPc = "notify"
    /\ nIdx <= Len(nList)
    /\ ~NeedsNotification(nList[nIdx].obj, ThisKey)
    /\ nIdx' = nIdx + 1
    /\ UNCHANGED <<nGreeted, libVars, nMessages, cVars, pQuiet, nReq, nQuiet, wVars, envVars, storeVars, pVars, nPc, nMem, nReadyAtStart, nSecretOk, nList,
                   nResult, nLog, nFaults, qVars>>

\* faulty variant: a failed send leaves the Notifier ready
ReadinessAfterFailedSend_Kept == TRUE

\* the readiness notifyOfChange records after a failed send
ReadinessAfterFailedSend == FALSE

\* notifyOfChange: SendNotification; on error patchStatus(patchIsReady(false))
\* (its error is only logged), PatchConditions and the error is returned; on
\* success PatchConditions and on to the annotation patch
NSendNotification ==
    /\ nPc = "notify"
    /\ nIdx <= Len(nList)
    /\ NeedsNotification(nList[nIdx].obj, ThisKey)
    /\ LET p == nList[nIdx].name
           ip == nList[nIdx].obj.status.providerIP
       IN \E callOk \in Outcomes(nFaults, MaxNFaults) :
          LET st0 == NCall(NState, LogEntry("SendNotification", p, ip, callOk))
          IN /\ nMessages' = Append(nMessages, Message(p, nList[nIdx].obj))
             /\ nGreeted' = IF nGreeted # "off" /\ ~callOk THEN "no" ELSE nGreeted
             /\ IF callOk
                THEN \E m \in {PatchConditionsApply(nMem, "Client",
                                 WithReasonAndMessage("ClientCommunication", "Notification sent")
                                   \o True, now)} :
                     \E ok \in Outcomes(nFaults, MaxNFaults) :
                           /\ (~m.changed) => ok
                           /\ NCommit(NotifierPatch(st0, m, ok, "Client"))
                           /\ nFaults' = nFaults + Cost(ok)
                           /\ nPc' = "patchAnnotation"
                           /\ sentOk' = [sentOk EXCEPT ![p] =
                                           IF providers[p].status.providerIP = ip THEN @ + 1 ELSE @]
                           /\ UNCHANGED nResult
                ELSE \E m1 \in {patchIsReady(nMem, ReadinessAfterFailedSend)} :
                     \E ok1 \in Outcomes(nFaults + 1, MaxNFaults) :
                       /\ (~m1.changed) => ok1
                       /\ \E st1 \in {NotifierPatch(st0, m1, ok1, "isReady")} :
                          \E m2 \in {PatchConditionsApply(st1.mem, "Client",
                                       WithReasonAndMessage("ClientCommunication",
                                           "unable to send notification: " \o ErrText) \o False, now)} :
                          \E ok2 \in Outcomes(nFaults + 1 + Cost(ok1), MaxNFaults) :
                               /\ (~m2.changed) => ok2
                               /\ NCommit(NotifierPatch(st1, m2, ok2, "Client"))
                               /\ nFaults' = nFaults + 1 + Cost(ok1) + Cost(ok2)
                               /\ NDone(ErrResult)
                               /\ UNCHANGED sentOk
    /\ UNCHANGED <<libVars, cVars, pQuiet, nReq, nQuiet, wVars, envVars, providers, pVars, nReadyAtStart, nSecretOk, nList, nIdx, annFailed>>

\* faulty variant: the marker is set to the stored publicIP
AnnotationMergePatch_PublicIP(stored, base, modified) ==
    [stored EXCEPT !.annotations =
        [k \in DOMAIN stored.annotations |->
            IF base.annotations[k] # modified.annotations[k] THEN stored.status.publicIP
            ELSE stored.annotations[k]]]

\* faulty variant: a full update, the annotations of the object in hand are
\* written as they are
AnnotationMergePatch_Update(stored, base, modified) ==
    [stored EXCEPT !.annotations = modified.annotations]

\* client.MergeFrom(provider.DeepCopy()) before the marker is set, r.Patch
\* after: the patch carries the annotations that differ between the copy and
\* the object in hand, and nothing of the status; the others stay as stored
AnnotationMergePatch(stored, base, modified) ==
    [stored EXCEPT !.annotations =
        [k \in DOMAIN stored.annotations |->
            IF base.annotations[k] # modified.annotations[k] THEN modified.annotations[k]
            ELSE stored.annotations[k]]]

\* r.Patch(provider, patch): the marker is stored; its error is returned
NPatchAnnotation ==
    /\ nPc = "patchAnnotation"
    /\ LET p == nList[nIdx].name
           ip == nList[nIdx].obj.status.providerIP
       IN \E ok \in Outcomes(nFaults, MaxNFaults) :
            /\ nFaults' = nFaults + Cost(ok)
            /\ nLog' = Append(nLog, LogEntry("patchAnnotation", p, ip, ok))
            /\ IF ok
               THEN /\ providers' = [providers EXCEPT ![p] =
                            AnnotationMergePatch(@, nList[nIdx].obj,
                                [nList[nIdx].obj EXCEPT !.annotations[ThisKey] = ip])]
                    /\ nIdx' = nIdx + 1
                    /\ nPc' = "notify"
                    /\ UNCHANGED nResult
               ELSE /\ NDone(ErrResult)
                    /\ UNCHANGED <<providers, nIdx>>
            /\ nQueued' = (nQueued \/ (providers'[p] # providers[p] /\ EnqueuesNotifier(p)))
            /\ annFailed' = [annFailed EXCEPT ![p] =
                                IF ~ok /\ providers[p].status.providerIP = ip THEN @ + 1 ELSE @]
    /\ UNCHANGED <<nGreeted, libVars, nMessages, cVars, pQuiet, nReq, nQuiet, wVars, envVars, notifier, pVars, nMem, nReadyAtStart, nSecretOk, nList, sentOk>>

OtherKey == AnnotationKey(OtherNotifierName, NotifierNamespace)

\* notifyOfChange of the second Notifier, as the first one sees it: after a
\* successful send its marker on the Provider is patched
OtherNotifierPatch(p) ==
    /\ providers[p].exists
    /\ NeedsNotification(providers[p], OtherKey)
    /\ providers' = [providers EXCEPT ![p] =
                        AnnotationMergePatch(@, @,
                            [@ EXCEPT !.annotations[OtherKey] = providers[p].status.providerIP])]
    /\ ProviderWatch
    /\ UNCHANGED <<nGreeted, libVars, cVars, pQuiet, nQuiet, wVars, envVars, notifier, pVars, nVars>>

\* after the loop: patchStatus(patchObservedGeneration(generation))
NPatchObservedGeneration ==
    /\ nPc = "notify"
    /\ nIdx > Len(nList)
    /\ \E m \in {patchNotifierObservedGeneration(nMem)} :
       \E ok \in Outcomes(nFaults, MaxNFaults) :
        /\ (~m.changed) => ok
        /\ NCommit(NotifierPatch(NState, m, ok, "observedGeneration"))
        /\ nFaults' = nFaults + Cost(ok)
        /\ IF m.changed /\ ~ok THEN NDone(ErrResult) ELSE NDone(EmptyResult)
    /\ UNCHANGED <<nGreeted, libVars, nMessages, cVars, pQuiet, nReq, nQuiet, wVars, envVars, providers, pVars, nReadyAtStart, nSecretOk, nList, nIdx, sentOk, annFailed>>

\* the pass has returned: an error or Requeue puts the request back in the
\* queue
NReturn ==
    /\ nPc = "done"
    /\ nPc' = "idle"
    /\ nQueued' = (nQueued \/ nResult.err \/ nResult.requeue)
    /\ nMem' = NewNotifier
    /\ nReadyAtStart' = FALSE
    /\ nSecretOk' = FALSE
    /\ nList' = <<>>
    /\ nIdx' = 0
    /\ nResult' = NoResult
    /\ nLog' = <<>>
    /\ nMessages' = <<>>
    /\ nReq' = NotifierRequest
    /\ nQuiet' = IF nQuiet = "off" THEN nQuiet
                 ELSE IF nResult.err \/ nQuiet = "no" THEN "no" ELSE "yes"
    /\ UNCHANGED <<nGreeted, libVars, cVars, pQuiet, wVars, envVars, storeVars, pVars, nFaults, sentOk, annFailed>>

\* The Provider reconciler as the Notifier controller sees it: a status
\* patch that stores another publicIP (patchPublicIp) or, once a publicIP is
\* stored, another providerIP (patchProviderIp)
ProviderStatusWrite(p) ==
    /\ providers[p].exists
    /\ statusWrites < MaxStatusWrites
    /\ statusWrites' = statusWrites + 1
    /\ \E ip \in IPs :
        \/ /\ providers[p].status.publicIP # ip
           /\ providers' = [providers EXCEPT ![p] =
                    StatusMergePatch(@, @, patchPublicIp(@, ip).obj)]
        \/ /\ providers[p].status.publicIP # NoIP
           /\ providers[p].status.providerIP # ip
           /\ providers' = [providers EXCEPT ![p] =
                    StatusMergePatch(@, @, patchProviderIp(@, ip).obj)]
    /\ ProviderWatch
    /\ nQuiet' = IF nQuiet = "off" THEN nQuiet ELSE "no"
    /\ UNCHANGED <<nGreeted, libVars, cVars, pQuiet, envVars, notifier, pVars, nVars>>

----------------------------------------------------------------------------
(* Specifications *)

TypeOK ==
    /\ publicIP \in IPs
    /\ ipEpoch \in 0..MaxIPChanges
    /\ dnsIP \in [Providers -> IPs]
    /\ pFaults \in 0..MaxPFaults
    /\ nFaults \in 0..MaxNFaults
    /\ nQueued \in BOOLEAN
    /\ now \in StartTime..MaxTime

\* both workers idle, nothing sent yet
InitWorkers ==
    /\ ipEpoch = 0
    /\ notifier = NewNotifier
    /\ pPc = "idle"
    /\ pReq = "p1"
    /\ pMem = NewProvider(FALSE)
    /\ pPublicIp = NoIP
    /\ pProviderIp = NoIP
    /\ pResult = NoResult
    /\ pLog = <<>>
    /\ pEpoch = 0
    /\ setIpOk = [p \in Providers |-> [e \in 0..MaxIPChanges |-> 0]]
    /\ nPc = "idle"
    /\ nReq = NotifierRequest
    /\ nMem = NewNotifier
    /\ nReadyAtStart = FALSE
    /\ nSecretOk = FALSE
    /\ nList = <<>>
    /\ nIdx = 0
    /\ nResult = NoResult
    /\ nLog = <<>>
    /\ nMessages = <<>>
    /\ nQueued = TRUE
    /\ sentOk = [p \in Providers |-> 0]
    /\ annFailed = [p \in Providers |-> 0]
    /\ statusWrites = 0

\* the clock stands still and the condition ledger is not used
InitClock ==
    /\ now = StartTime
    /\ cConds = <<>>
    /\ cPrev = <<>>
    /\ cCalls = <<>>

\* GetPublicIp and the Cloudflare client are not called on their own
InitLib ==
    /\ ipCustom = ""
    /\ ipAnswers = <<>>
    /\ ipQueried = <<>>
    /\ ipReturn = <<>>
    /\ cfConfig = <<>>
    /\ cfListed = <<>>
    /\ cfFailAt = 0
    /\ cfCalls = <<>>
    /\ cfReturn = <<>>

InitCommon ==
    /\ InitWorkers
    /\ InitClock
    /\ InitLib

ProviderActions ==
    \/ \E p \in Providers : PGet(p)
    \/ PDiscoverIp
    \/ PPatchPublicIp
    \/ PFetchSecret
    \/ PFetchConfig
    \/ PCreateClient
    \/ PGetIp
    \/ PPatchProviderIp
    \/ PSetIp
    \/ PPatchSetProviderIp
    \/ PPatchObservedGeneration
    \/ PReturn

NotifierActions ==
    \/ NGet
    \/ NFetchConfig
    \/ NFetchSecret
    \/ NCreateNotifier
    \/ NSendGreetings
    \/ NPatchIsReady
    \/ NList
    \/ NSkip
    \/ NSendNotification
    \/ NPatchAnnotation
    \/ NPatchObservedGeneration
    \/ NReturn

\* the history of repeated passes is kept for the Providers in ps and, if n,
\* for the Notifier
History(ps, n) ==
    /\ pQuiet = [p \in Providers |-> IF p \in ps THEN "no" ELSE "off"]
    /\ nQuiet = IF n THEN "no" ELSE "off"
    /\ nGreeted = IF n THEN "no" ELSE "off"

\* the Provider controller alone, with its faults: one Provider exists
InitPStore ==
    /\ InitCommon
    /\ providers = [p \in Providers |-> NewProvider(p = "p1")]
    /\ publicIP = "1.1.1.1"
    /\ dnsIP \in {d \in [Providers -> IPs] : \A p \in Providers : ~providers[p].exists => d[p] = "1.1.1.1"}
    /\ pFaults = 0
    /\ nFaults = 0

InitP == InitPStore /\ History({}, FALSE)

InitPHist == InitPStore /\ History(Providers, FALSE)

NextP ==
    \/ ProviderActions
    \/ ChangePublicIP
    \/ \E p \in Providers : EditProviderSpec(p)

SpecP == InitP /\ [][NextP]_vars

\* first passes: requests for Providers that have no status yet
PGetFresh(p) ==
    /\ providers[p].status = EmptyStatus
    /\ PGet(p)

FirstPassActions ==
    \/ \E p \in Providers : PGetFresh(p)
    \/ PDiscoverIp
    \/ PPatchPublicIp
    \/ PFetchSecret
    \/ PFetchConfig
    \/ PCreateClient
    \/ PGetIp
    \/ PPatchProviderIp
    \/ PSetIp
    \/ PPatchSetProviderIp
    \/ PPatchObservedGeneration
    \/ PReturn

NextFirstPass ==
    \/ FirstPassActions
    \/ ChangePublicIP

SpecFirstPass == InitP /\ [][NextFirstPass]_vars

\* the Provider controller, with the history of repeated passes
SpecPHist == InitPHist /\ [][NextP]_vars

\* the Provider controller while the spec of the Provider is left alone
NextIp ==
    \/ ProviderActions
    \/ ChangePublicIP

\* both controllers on requests for objects that do not exist, next to the
\* passes of the Provider controller on the one that does
NextNotFound ==
    \/ NextIp
    \/ NGetNotFound
    \/ NReturn

SpecNotFound == InitP /\ [][NextNotFound]_vars

\* a pass that returned is followed by another one (RequeueAfter on
\* success, the rate-limited requeue on error), and a pass under way goes on
FairSpecP ==
    /\ InitP /\ [][NextIp]_vars
    /\ \A p \in Providers : SF_vars(PGet(p))
    /\ WF_vars(PDiscoverIp) /\ WF_vars(PPatchPublicIp)
    /\ WF_vars(PFetchSecret) /\ WF_vars(PFetchConfig) /\ WF_vars(PCreateClient)
    /\ WF_vars(PGetIp) /\ WF_vars(PPatchProviderIp) /\ WF_vars(PSetIp)
    /\ WF_vars(PPatchSetProviderIp) /\ WF_vars(PPatchObservedGeneration)
    /\ WF_vars(PReturn)

\* the Notifier controller with its faults; the Provider reconciler acts
\* through its status writes
InitNStore ==
    /\ InitCommon
    /\ providers = [p \in Providers |-> NewProvider(TRUE)]
    /\ publicIP = "1.1.1.1"
    /\ dnsIP = [p \in Providers |-> "1.1.1.1"]
    /\ pFaults = 0
    /\ nFaults = 0

InitN == InitNStore /\ History({}, FALSE)

InitNHist == InitNStore /\ History({}, TRUE)

NextN ==
    \/ NotifierActions
    \/ \E p \in Providers : ProviderStatusWrite(p)

SpecN == InitN /\ [][NextN]_vars

\* the Notifier controller, with the history of repeated passes
SpecNHist == InitNHist /\ [][NextN]_vars

\* the Notifier controller next to a Provider of another namespace that
\* names a Notifier of its own namespace with the same name
ForeignNotifierRefs == <<[name |-> NotifierName, namespace |-> ProviderNamespace("p2")]>>

InitRefs ==
    /\ InitCommon
    /\ providers = [p \in Providers |->
                        IF p = "p2" THEN [NewProvider(TRUE) EXCEPT !.notifierRefs = ForeignNotifierRefs]
                        ELSE NewProvider(TRUE)]
    /\ publicIP = "1.1.1.1"
    /\ dnsIP = [p \in Providers |-> "1.1.1.1"]
    /\ pFaults = 0
    /\ nFaults = 0
    /\ History({}, FALSE)

SpecRefs == InitRefs /\ [][NextN]_vars

\* a Provider as a pass without failure leaves it: the three conditions
\* True, both IPs, the generation observed
ReconciledProvider(ip) ==
    LET a == UpdateConditions(NewProvider(TRUE),
                Condition("Secret", "True", "SecretFound", "Secret found", 0), StartTime).obj
        b == UpdateConditions(a,
                Condition("ConfigMap", "True", "ConfigMapFound", "ConfigMap found", 0), StartTime).obj
        c == UpdateConditions(b,
                Condition("Client", "True", "ClientCreated", "Client created", 0), StartTime).obj
    IN patchObservedGeneration(patchProviderIp(patchPublicIp(c, ip).obj, ip).obj).obj

\* the Notifier controller next to two Providers that were reconciled before
\* the Notifier was created
InitSeveral ==
    /\ InitCommon
    /\ providers = [p \in Providers |-> ReconciledProvider("1.1.1.1")]
    /\ publicIP = "1.1.1.1"
    /\ dnsIP = [p \in Providers |-> "1.1.1.1"]
    /\ pFaults = 0
    /\ nFaults = 0
    /\ History({}, FALSE)

SpecSeveral == InitSeveral /\ [][NextN]_vars

\* both controllers without failures and without changes from outside: the
\* public IP, the specs, the Secret and the ConfigMap stay as they are
InitQuiet ==
    /\ InitCommon
    /\ providers = [p \in Providers |-> NewProvider(TRUE)]
    /\ publicIP = "2.2.2.2"
    /\ dnsIP = [p \in Providers |-> IF p = "p1" THEN "1.1.1.1" ELSE "2.2.2.2"]
    /\ pFaults = MaxPFaults
    /\ nFaults = MaxNFaults
    /\ History({}, FALSE)

NextQuiet ==
    \/ ProviderActions
    \/ NotifierActions

SpecQuiet == InitQuiet /\ [][NextQuiet]_vars

\* every queued request is served and every pass goes on to its end; the
\* Provider passes come back with the retry interval for ever
FairSpecQuiet ==
    /\ SpecQuiet
    /\ \A p \in Providers : SF_vars(PGet(p))
    /\ WF_vars(PDiscoverIp) /\ WF_vars(PPatchPublicIp)
    /\ WF_vars(PFetchSecret) /\ WF_vars(PFetchConfig) /\ WF_vars(PCreateClient)
    /\ WF_vars(PGetIp) /\ WF_vars(PPatchProviderIp) /\ WF_vars(PSetIp)
    /\ WF_vars(PPatchSetProviderIp) /\ WF_vars(PPatchObservedGeneration)
    /\ WF_vars(PReturn)
    /\ WF_vars(NGet) /\ WF_vars(NFetchConfig) /\ WF_vars(NFetchSecret)
    /\ WF_vars(NCreateNotifier) /\ WF_vars(NSendGreetings) /\ WF_vars(NPatchIsReady)
    /\ WF_vars(NList) /\ WF_vars(NSkip) /\ WF_vars(NSendNotification)
    /\ WF_vars(NPatchAnnotation) /\ WF_vars(NPatchObservedGeneration)
    /\ WF_vars(NReturn)

\* both controllers at once on the one Provider that exists, the workers of
\* the two controllers interleaved step by step; the public IP differs from
\* the record, so that a pass has something to write, and at most one call
\* fails, on either side
InitBoth ==
    /\ InitCommon
    /\ providers = [p \in Providers |-> NewProvider(p = "p1")]
    /\ publicIP = "2.2.2.2"
    /\ dnsIP = [p \in Providers |-> "1.1.1.1"]
    /\ \E side \in {"provider", "notifier"} :
            /\ pFaults = IF side = "provider" THEN MaxPFaults - 1 ELSE MaxPFaults
            /\ nFaults = IF side = "notifier" THEN MaxNFaults - 1 ELSE MaxNFaults
    /\ History({}, FALSE)

NextBoth ==
    \/ ProviderActions
    \/ NotifierActions
    \/ \E p \in Providers : OtherNotifierPatch(p)

SpecBoth == InitBoth /\ [][NextBoth]_vars

\* the Provider controller next to the marker patches of a Notifier, which
\* reach it as update events of the Provider
NextWatch ==
    \/ NextP
    \/ \E p \in Providers : OtherNotifierPatch(p)

SpecWatch == InitP /\ [][NextWatch]_vars

\* the condition ledger on its own: FillConditions and SetCondition are
\* called on a list of conditions while the clock advances
MaxCalls == 2

LedgerTypes == ProviderConditionTypes

\* the lists the calls begin on: none, one evaluated condition, and an
\* evaluated one next to a placeholder
InitLedgers ==
    {<<>>,
     <<Stamped(Condition("Secret", "True", "SecretFound", "Secret found", 1), StartTime)>>,
     <<Stamped(Condition("Client", "False", "ClientCreated", ErrText, 0), StartTime),
       Stamped(UnknownCondition("ConfigMap"), StartTime)>>}

\* the options of a call: none, each option alone, the lists the
\* reconcilers pass, and a list whose options contradict each other
OptionLists ==
    {<<>>, True, False, <<WithReason("SecretFound")>>, <<WithMessage("Secret found")>>,
     WithObservedGeneration(1),
     WithReasonAndMessage("SecretFound", "Secret found") \o True,
     WithReasonAndMessage("SecretFound", "Secret not found") \o False \o WithObservedGeneration(1),
     True \o False}

InitLedger ==
    /\ InitWorkers
    /\ providers = [p \in Providers |-> NewProvider(p = "p1")]
    /\ publicIP = "1.1.1.1"
    /\ dnsIP = [p \in Providers |-> "1.1.1.1"]
    /\ pFaults = 0
    /\ nFaults = 0
    /\ History({}, FALSE)
    /\ now = StartTime
    /\ cConds \in InitLedgers
    /\ cPrev = cConds
    /\ cCalls = <<>>
    /\ InitLib

LedgerCall(op, type, options, r) ==
    /\ Len(cCalls) < MaxCalls
    /\ cConds' = r.conds
    /\ cPrev' = cConds
    /\ cCalls' = Append(cCalls, [op |-> op, type |-> type, options |-> options,
                                 changed |-> r.changed, at |-> now])
    /\ UNCHANGED <<nGreeted, libVars, now, pQuiet, nQuiet, wVars, envVars, storeVars, pVars, nVars, qVars>>

\* time passes between two calls
Tick ==
    /\ now < MaxTime
    /\ now' = now + 1
    /\ UNCHANGED <<nGreeted, libVars, cConds, cPrev, cCalls, pQuiet, nQuiet, wVars, envVars, storeVars, pVars, nVars, qVars>>

CallFillConditions ==
    LedgerCall("FillConditions", "", <<>>, FillConditions(cConds, LedgerTypes, now))

CallSetCondition(type, options) ==
    LedgerCall("SetCondition", type, options, SetCondition(cConds, type, options, now))

NextLedger ==
    \/ Tick
    \/ CallFillConditions
    \/ \E type \in TypesOf(LedgerTypes), options \in OptionLists : CallSetCondition(type, options)

SpecLedger == InitLedger /\ [][NextLedger]_vars

\* a queued request is served, and a pass under way goes on
FairSpecN ==
    /\ SpecN
    /\ WF_vars(NGet) /\ WF_vars(NFetchConfig) /\ WF_vars(NFetchSecret)
    /\ WF_vars(NCreateNotifier) /\ WF_vars(NSendGreetings) /\ WF_vars(NPatchIsReady)
    /\ WF_vars(NList) /\ WF_vars(NSkip) /\ WF_vars(NSendNotification)
    /\ WF_vars(NPatchAnnotation) /\ WF_vars(NPatchObservedGeneration)
    /\ WF_vars(NReturn)

----------------------------------------------------------------------------
(* Claims about the Provider reconciler *)

PCalls(call) == SelectSeq(pLog, LAMBDA e : e[1] = call)
PCalled(call, ok) == \E i \in 1..Len(pLog) : pLog[i][1] = call /\ pLog[i][3] = ok
PSucceeded == pPc = "done" /\ pResult.requeue

Converged(p) ==
    /\ dnsIP[p] = publicIP
    /\ providers[p].status.publicIP = publicIP
    /\ providers[p].status.providerIP = providers[p].status.publicIP

\* C1: once the public IP stops changing and the external calls succeed,
\* the requeued passes bring the DNS provider's IP to the public IP and the
\* stored status.providerIP to status.publicIP, and keep them there.
C1_Convergence ==
    \A p \in Providers : <>[](providers[p].exists => Converged(p))

\* the IP changed, a call failed on the way, SetIp went through and the
\* Provider has converged
C1_Witness ==
    /\ ipEpoch >= 1
    /\ pFaults >= 1
    /\ setIpOk["p1"][ipEpoch] = 1
    /\ Converged("p1")

\* the pass is past the desync test of Reconcile: GetIp returned, and the
\* status patch of its result did not abort the pass
PastDesyncTest ==
    /\ PCalled("GetIp", TRUE)
    /\ \/ pPc \in {"patchSetProviderIp", "patchObservedGeneration"}
       \/ /\ pPc = "done"
          /\ \/ PCalls("SetIp") # <<>>
             \/ pLog[Len(pLog)] # <<"patch", "providerIP", FALSE>>

\* C2: in a pass, SetIp is invoked exactly when the IP GetIp returned in
\* this pass differs from the public IP discovered in this pass (for every
\* pass that reaches the comparison), at most once, with the discovered
\* public IP as argument; after a successful pass the stored
\* status.providerIP is that public IP.
C2_SetIpIffDesynced ==
    /\ Len(PCalls("SetIp")) <= 1
    /\ \A i \in 1..Len(PCalls("SetIp")) :
        /\ PCalls("SetIp")[i][2] = pPublicIp
        /\ PCalled("GetIp", TRUE)
        /\ pProviderIp # pPublicIp
    /\ PastDesyncTest => (PCalls("SetIp") # <<>> <=> pProviderIp # pPublicIp)
    /\ PSucceeded => providers[pReq].status.providerIP = pPublicIp

\* a pass that succeeded and called SetIp after a change of the public IP
C2_Witness ==
    /\ PSucceeded
    /\ ipEpoch >= 1
    /\ PCalled("SetIp", TRUE)
    /\ PCalls("SetIp")[1][2] = pPublicIp

\* C3 as stated: once a successful pass has seen a changed public IP, SetIp
\* has succeeded exactly once for that change.
C3_ExactlyOncePerChange ==
    (PSucceeded /\ ipEpoch >= 1 /\ pEpoch = ipEpoch) => setIpOk[pReq][ipEpoch] = 1

\* C3, amended: SetIp succeeds at most once per change of the public IP,
\* whatever passes abort after a successful SetIp, and exactly once for a
\* change that a successful pass found the DNS provider out of step with.
C3_AtMostOncePerChange ==
    /\ \A p \in Providers : \A e \in 0..MaxIPChanges : setIpOk[p][e] <= 1
    /\ (PSucceeded /\ pProviderIp # pPublicIp) => setIpOk[pReq][pEpoch] = 1

\* a pass that found the stored providerIP stale, because the pass that
\* set the IP aborted before storing it, and did not call SetIp again
C3_Witness ==
    /\ PSucceeded
    /\ PCalled("patch", TRUE)
    /\ \E i \in 1..Len(pLog) : pLog[i] = <<"patch", "providerIP", TRUE>>
    /\ PCalls("SetIp") = <<>>
    /\ setIpOk[pReq][pEpoch] = 1


----------------------------------------------------------------------------
(* Claims about the Notifier reconciler *)

NCalled(call, p, ok) ==
    \E i \in 1..Len(nLog) : nLog[i].call = call /\ nLog[i].p = p /\ nLog[i].ok = ok
NInvoked(call, p) == NCalled(call, p, TRUE) \/ NCalled(call, p, FALSE)
Marker(p) == providers[p].annotations[ThisKey]

\* notifyOfChange has taken its decision for the i-th filtered Provider
NotifyDecided(i) ==
    \/ i < nIdx
    \/ i = nIdx /\ nPc \in {"patchAnnotation", "done"}

\* the providerIP is set and the marker is missing or holds another value
MarkerDiffers(obj) ==
    /\ obj.status.providerIP # NoIP
    /\ \/ obj.annotations[ThisKey] = NoAnnotation
       \/ obj.annotations[ThisKey] # obj.status.providerIP

\* C4: in a pass that started ready, for every referencing Provider the
\* pass comes to, SendNotification is invoked exactly when the providerIP
\* is non-empty and differs from the marker (a missing marker differs);
\* otherwise there is neither a send nor a marker write for that Provider.
C4_SendIffMarkerDiffers ==
    (nReadyAtStart /\ nPc # "idle") =>
        \A i \in 1..Len(nList) : NotifyDecided(i) =>
            LET p == nList[i].name
                obj == nList[i].obj
            IN /\ NInvoked("SendNotification", p) <=> MarkerDiffers(obj)
               /\ ~MarkerDiffers(obj) =>
                    /\ ~NInvoked("patchAnnotation", p)
                    /\ providers[p].annotations = obj.annotations

\* a ready pass ended without a send for a Provider whose marker already
\* holds its providerIP
C4_Witness ==
    /\ nReadyAtStart
    /\ nPc = "done"
    /\ ~nResult.err
    /\ \E i \in 1..Len(nList) :
        /\ nList[i].obj.status.providerIP # NoIP
        /\ nList[i].obj.annotations[ThisKey] = nList[i].obj.status.providerIP
        /\ ~NInvoked("SendNotification", nList[i].name)

\* every marker patch of the pass follows a successful send of the same IP
\* for the same Provider
MarkerPatchFollowsSend ==
    \A i \in 1..Len(nLog) : nLog[i].call = "patchAnnotation" =>
        \E j \in 1..(i - 1) :
            nLog[j] = LogEntry("SendNotification", nLog[i].p, nLog[i].ip, TRUE)

\* a stored marker changes only in the marker patch of a pass that has
\* announced the Provider's providerIP, and to that IP
MarkerWrittenAfterSend ==
    \A p \in Providers : Marker(p)' # Marker(p) =>
        /\ nPc = "patchAnnotation"
        /\ nList[nIdx].name = p
        /\ NCalled("SendNotification", p, TRUE)
        /\ \E i \in 1..Len(nLog) :
            /\ nLog[i] = LogEntry("SendNotification", p, Marker(p)', TRUE)
            /\ nLog[i].ip = nList[nIdx].obj.status.providerIP

\* a pass whose send failed has left the marker as List read it
FailedSendKeepsMarker ==
    \A p \in Providers : NCalled("SendNotification", p, FALSE) =>
        /\ nPc = "done"
        /\ ~NInvoked("patchAnnotation", p)
        /\ Marker(p) = nList[nIdx].obj.annotations[ThisKey]

\* C5: the stored marker is written only after SendNotification succeeded
\* in the same pass, its new value is the announced providerIP, and a failed
\* SendNotification leaves the stored marker unchanged.
C5_MarkerOnlyAfterSend ==
    /\ [](MarkerPatchFollowsSend /\ FailedSendKeepsMarker)
    /\ [][MarkerWrittenAfterSend]_vars

\* a marker has been stored in this pass
C5_Witness ==
    /\ \E p \in Providers :
        /\ NCalled("patchAnnotation", p, TRUE)
        /\ Marker(p) = nList[1].obj.status.providerIP
        /\ nList[1].name = p

\* the providerIP of the Provider is set and the marker does not hold it
Unannounced(p) ==
    /\ providers[p].status.providerIP # NoIP
    /\ Marker(p) # providers[p].status.providerIP

\* C6: for every Provider that refers to the Notifier, a providerIP that is
\* set and differs from the marker is eventually announced: the marker
\* comes to hold the Provider's providerIP.
C6_AtLeastOnce ==
    \A p \in Providers :
        Unannounced(p) ~> (Marker(p) = providers[p].status.providerIP)

\* C7 as stated: the stored providerIP of a Provider is announced
\* successfully at most once.
C7_NeverTwice ==
    \A p \in Providers : sentOk[p] <= 1

\* C7, amended: the stored providerIP of a Provider is announced
\* successfully once, plus once more for every marker patch that failed
\* after a successful send; once the marker holds the IP it is not announced
\* again.
C7_TwiceOnlyAfterFailedMarkerPatch ==
    /\ \A p \in Providers : sentOk[p] <= 1 + annFailed[p]
    /\ \A i \in 1..Len(nLog) : nLog[i].call = "SendNotification" =>
        \E j \in 1..Len(nList) :
            /\ nList[j].name = nLog[i].p
            /\ nList[j].obj.annotations[ThisKey] # nLog[i].ip

\* the same providerIP was announced twice, the marker patch having failed
\* in between
C7_Witness ==
    sentOk["p1"] = 2 /\ annFailed["p1"] = 1

\* C8: the stored isReady turns from false to true only in a pass whose
\* SendGreetings succeeded, and SendNotification is never invoked in a pass
\* that read isReady as false.
C8_ReadinessGate ==
    /\ [][(~notifier.status.isReady /\ notifier'.status.isReady) =>
            (nPc = "patchIsReady" /\ NCalled("SendGreetings", "", TRUE))]_vars
    /\ [](\A i \in 1..Len(nLog) : nLog[i].call = "SendNotification" => nReadyAtStart)

\* a ready pass that sent a notification
C8_Witness ==
    /\ notifier.status.isReady
    /\ nReadyAtStart
    /\ \E p \in Providers : NCalled("SendNotification", p, TRUE)

ClientCondition(obj) ==
    obj.status.conditions[FindStatusCondition(obj.status.conditions, "Client")]

GreetingFailedCondition ==
    Stamped(Condition("Client", "False", "ClientCommunication",
                      "unable to send greetings: " \o ErrText, notifier.generation), now)

\* C9: when SendGreetings fails, the pass returns an error, the stored
\* isReady stays false and the Client condition is False with the message
\* "unable to send greetings: <err>" (stored as soon as its status patch
\* goes through).
C9_GreetingFailure ==
    NCalled("SendGreetings", "", FALSE) =>
        /\ nPc = "done"
        /\ nResult.err
        /\ ~notifier.status.isReady
        /\ ~nMem.status.isReady
        /\ ClientCondition(nMem) = GreetingFailedCondition
        /\ nLog[Len(nLog)] = LogEntry("patch", "Client", "", TRUE) =>
                ClientCondition(notifier) = GreetingFailedCondition

\* the greeting failed and the condition is stored
C9_Witness ==
    /\ NCalled("SendGreetings", "", FALSE)
    /\ nLog[Len(nLog)] = LogEntry("patch", "Client", "", TRUE)
    /\ ClientCondition(notifier).status = "False"

\* C10: no pass invokes both SendGreetings and SendNotification; after a
\* successful greeting the pass lists no Providers, and when it has stored
\* isReady = true it returns an immediate requeue request.
C10_GreetingAndNotificationApart ==
    /\ ~(\E i, j \in 1..Len(nLog) :
            nLog[i].call = "SendGreetings" /\ nLog[j].call = "SendNotification")
    /\ NCalled("SendGreetings", "", TRUE) =>
        /\ ~NInvoked("List", "")
        /\ nPc \in {"patchIsReady", "done"}
        /\ (nPc = "done" /\ ~nResult.err) =>
            /\ nResult.requeue /\ nResult.requeueAfter = 0
            /\ notifier.status.isReady
            /\ nLog[Len(nLog)] = LogEntry("patch", "isReady", "", TRUE)

\* a pass greeted, stored isReady and asked for the requeue
C10_Witness ==
    /\ nPc = "done"
    /\ NCalled("SendGreetings", "", TRUE)
    /\ nResult.requeue
    /\ notifier.status.isReady


CountCalls(log, call) == Len(SelectSeq(log, LAMBDA e : e.call = call))

NotificationFailedCondition ==
    Stamped(Condition("Client", "False", "ClientCommunication",
                      "unable to send notification: " \o ErrText, notifier.generation), now)

\* the pass is over with the error of the failed send; the Client condition
\* is False in memory, and isReady and the Client condition are demoted in
\* the store by every status patch that went through
DemotedAfterFailedSend ==
    (\E p \in Providers : NCalled("SendNotification", p, FALSE)) =>
        /\ nPc = "done"
        /\ nResult.err
        /\ ClientCondition(nMem) = NotificationFailedCondition
        /\ NInvoked("patch", "isReady")
        /\ NCalled("patch", "isReady", TRUE) => ~notifier.status.isReady
        /\ nLog[Len(nLog)] = LogEntry("patch", "Client", "", TRUE) =>
                ClientCondition(notifier) = NotificationFailedCondition

\* SendNotification is invoked only while the stored isReady is true
SendOnlyWhileReady ==
    (nLog' # <<>> /\ CountCalls(nLog', "SendNotification") > CountCalls(nLog, "SendNotification"))
        => notifier.status.isReady

\* the stored isReady comes back to true only through a successful greeting
ReadyOnlyByGreeting ==
    (~notifier.status.isReady /\ notifier'.status.isReady) =>
        /\ NCalled("SendGreetings", "", TRUE)
        /\ ~(\E p \in Providers : NInvoked("SendNotification", p))

----------------------------------------------------------------------------
(* Claims about observedGeneration and the results of a Provider pass *)

\* the step in which a pass on an existing Provider returns without error
PEndsOk ==
    /\ pPc # "done"
    /\ pPc' = "done"
    /\ ~pResult'.err
    /\ providers[pReq'].exists

\* C12 as stated: when a Provider pass returns no error for an existing
\* Provider, the stored status.observedGeneration equals metadata.generation.
C12_ObservedGenerationAtEnd ==
    [][PEndsOk =>
        providers'[pReq].status.observedGeneration = providers'[pReq].generation]_vars

\* C12, amended: when a Provider pass returns no error for an existing
\* Provider, the stored status.observedGeneration equals the
\* metadata.generation the pass last read, which is the stored
\* metadata.generation unless the spec was edited after that read.
C12_ObservedGenerationAsRead ==
    [][PEndsOk =>
        /\ providers'[pReq].status.observedGeneration = pMem.generation
        /\ pMem.generation = providers[pReq].generation =>
            providers'[pReq].status.observedGeneration = providers'[pReq].generation]_vars

\* a pass succeeded after an edit of the spec and stored the new generation
C12_Witness ==
    /\ PSucceeded
    /\ providers[pReq].generation = 2
    /\ providers[pReq].status.observedGeneration = 2
    /\ PCalled("patch", TRUE)
    /\ pLog[Len(pLog)] = <<"patch", "observedGeneration", TRUE>>

\* IP discovery, the three gates, GetIp and, on a desync, SetIp succeeded
PAllCallsOk ==
    /\ \A c \in {"IPProvider", "GetSecret", "GetConfigMap", "ClientFactory", "GetIp"} :
            PCalled(c, TRUE)
    /\ \A i \in 1..Len(pLog) : pLog[i][1] # "patch" => pLog[i][3]
    /\ pProviderIp # pPublicIp => PCalled("SetIp", TRUE)

ObservedGenerationWrittenLast ==
    \A p \in Providers :
        providers'[p].status.observedGeneration # providers[p].status.observedGeneration =>
            /\ pPc = "patchObservedGeneration"
            /\ p = pReq
            /\ PAllCallsOk
            /\ pPc' = "done"
            /\ pResult' = RequeueAfterResult
            /\ pLog' = Append(pLog, <<"patch", "observedGeneration", TRUE>>)

AbortKeepsObservedGeneration ==
    (pPc = "done" /\ pResult.err) =>
        ~(\E i \in 1..Len(pLog) : pLog[i] = <<"patch", "observedGeneration", TRUE>>)

\* C13: the stored status.observedGeneration changes only in the last
\* write of a pass in which IP discovery, the Secret fetch, the ConfigMap
\* fetch, the client construction, GetIp and (on a desync) SetIp succeeded;
\* a pass that aborts leaves it unchanged.
C13_ObservedGenerationOnlyAtEnd ==
    /\ [][ObservedGenerationWrittenLast]_vars
    /\ []AbortKeepsObservedGeneration

\* the observedGeneration was written at the end of a pass that called SetIp
C13_Witness ==
    /\ pPc = "done"
    /\ PCalled("SetIp", TRUE)
    /\ pLog[Len(pLog)] = <<"patch", "observedGeneration", TRUE>>
    /\ providers[pReq].status.observedGeneration = providers[pReq].generation



\* no patch of publicIP, providerIP or observedGeneration failed (the error
\* of a condition patch does not reach Reconcile)
PFieldPatchesOk ==
    \A i \in 1..Len(pLog) :
        (pLog[i][1] = "patch" /\ pLog[i][2] \in {"publicIP", "providerIP", "observedGeneration"})
            => pLog[i][3]

C16_AbortWitness ==
    /\ pPc = "done"
    /\ PCalled("GetIp", FALSE)
    /\ pResult = ErrResult

-----------------------------------------------------------------------------
(* Idempotence *)

\* every call of the pass other than a status patch succeeded
PNonPatchCallsOk == \A i \in 1..Len(pLog) : pLog[i][1] # "patch" => pLog[i][3]

\* a pass on an existing Provider is over, it began in the state left by a
\* successful pass with nothing changed since, and its Secret, ConfigMap,
\* client and DNS provider answered as before
PRepeatedPass ==
    /\ pPc = "done"
    /\ providers[pReq].exists
    /\ pQuiet[pReq] = "yes"
    /\ PNonPatchCallsOk

\* C14: a Provider pass that starts from the state left by a successful pass,
\* with the same public IP, the DNS provider reporting it and unchanged
\* Secret, ConfigMap and spec, issues no status patch call and no SetIp.
C14_ProviderIdempotence ==
    PRepeatedPass => PCalls("patch") = <<>> /\ PCalls("SetIp") = <<>>

\* the same, when every status patch of the preceding passes went through
C14_IdempotentAfterCleanWrites ==
    (PRepeatedPass /\ pFaults = 0) => PCalls("patch") = <<>> /\ PCalls("SetIp") = <<>>

\* a Notifier pass is over without error; it began in the state left by an
\* error-free pass, with no Provider status written since
NRepeatedPass ==
    /\ nPc = "done"
    /\ ~nResult.err
    /\ nQuiet = "yes"

\* C15: a Notifier pass that starts from the state left by a preceding
\* error-free pass (the greeting pass and a notification pass included), with
\* nothing changed in between, issues no status patch call.
C15_NotifierIdempotence ==
    NRepeatedPass => \A i \in 1..Len(nLog) : nLog[i].call # "patch"

-----------------------------------------------------------------------------
(* Requests for objects that do not exist *)

\* the Provider pass under way or just over is one for a missing Provider
PNotFoundPass == pPc = "done" /\ ~providers[pReq].exists

\* the Notifier pass just over is one for a missing Notifier
NNotFoundPass == nPc = "done" /\ nReq \in MissingRequests

\* a pass for a missing object returned no error and no requeue request, and
\* made no call
NotFoundIsNoError ==
    /\ PNotFoundPass =>
        /\ ~pResult.err /\ ~pResult.requeue /\ pResult.requeueAfter = 0
        /\ pLog = <<>>
    /\ NNotFoundPass =>
        /\ ~nResult.err /\ ~nResult.requeue /\ nResult.requeueAfter = 0
        /\ nLog = <<>>

\* the step that runs such a pass writes nothing: the stored objects, the
\* DNS provider and the queue of the Notifier stay as they are
NotFoundWritesNothing ==
    ((pPc = "idle" /\ PNotFoundPass') \/ (nPc = "idle" /\ NNotFoundPass')) =>
        /\ providers' = providers
        /\ notifier' = notifier
        /\ dnsIP' = dnsIP
        /\ nQueued' = nQueued

\* the worker takes the next request without putting this one back
NotFoundIsNotRequeued ==
    (NNotFoundPass /\ nPc' = "idle") => nQueued' = nQueued

\* C17: a pass for a Provider, or a Notifier, that does not exist returns no
\* error and no requeue request, and performs no IP discovery, no client
\* construction, no external call and no write.
C17_NotFoundIsSilent ==
    /\ []NotFoundIsNoError
    /\ [][NotFoundWritesNothing /\ NotFoundIsNotRequeued]_vars

\* both controllers have finished a pass for a missing object
C17_Witness ==
    /\ PNotFoundPass /\ pReq = "p2" /\ pResult = EmptyResult
    /\ NNotFoundPass /\ nResult = EmptyResult

-----------------------------------------------------------------------------
(* Failures of the steps of a Provider pass *)

\* the pass is over with the error, IP discovery was its only call, and the
\* stored status is the one the pass read
DiscoveryFailureAborts ==
    PCalled("IPProvider", FALSE) =>
        /\ pPc = "done"
        /\ pResult.err /\ ~pResult.requeue /\ pResult.requeueAfter = 0
        /\ Len(pLog) = 1
        /\ providers[pReq].status = pMem.status

\* the failing step writes nothing
DiscoveryFailureWritesNothing ==
    (pPc = "discover" /\ pPc' = "done") =>
        /\ providers' = providers
        /\ dnsIP' = dnsIP

\* C18: when public-IP discovery fails, the pass returns the error, the
\* stored Provider is left as it was (publicIP, providerIP, conditions and
\* observedGeneration are not written) and neither the Secret or ConfigMap
\* fetch nor the client factory nor GetIp or SetIp is invoked.
C18_DiscoveryFailure ==
    /\ []DiscoveryFailureAborts
    /\ [][DiscoveryFailureWritesNothing]_vars

\* discovery failed in a pass on a Provider whose status an earlier pass filled
C18_Witness ==
    /\ pPc = "done"
    /\ PCalled("IPProvider", FALSE)
    /\ providers[pReq].status.publicIP # NoIP
    /\ providers[pReq].status.conditions # <<>>

\* the condition a gate of the pass records: of the generation the pass
\* read, stamped when it was recorded
Gate(type, status, reason, message) ==
    Stamped(Condition(type, status, reason, message, pMem.generation), now)

\* the conditions a pass holds after it passed the first k gates of a
\* Provider that had none: Secret, ConfigMap, Client, each True
PassedGates(k) ==
    SubSeq(<<Gate("Secret", "True", "SecretFound", "Secret found"),
             Gate("ConfigMap", "True", "ConfigMapFound", "ConfigMap found"),
             Gate("Client", "True", "ClientCreated", "Client created")>>,
           1, k)

\* the pass aborts at its k-th gate, having begun on a Provider without
\* conditions: it holds k conditions, the last one False with the message of
\* the gate, and they are the stored ones when the status patch went through
GateAborts(pc, k, failed) ==
    (pPc = pc /\ pMem.status.conditions = PassedGates(k - 1) /\ pPc' = "done") =>
        /\ pResult'.err /\ ~pResult'.requeue
        /\ pMem'.status.conditions = Append(PassedGates(k - 1), failed)
        /\ pLog'[Len(pLog')] = <<"patch", failed.type, TRUE>> =>
                providers'[pReq].status.conditions = pMem'.status.conditions
        /\ pLog'[Len(pLog')] = <<"patch", failed.type, FALSE>> =>
                providers'[pReq].status.conditions = providers[pReq].status.conditions

GateStructure ==
    /\ GateAborts("fetchSecret", 1,
            Gate("Secret", "False", "SecretFound", "Secret not found"))
    /\ GateAborts("fetchConfig", 2,
            Gate("ConfigMap", "False", "ConfigMapFound", "ConfigMap not found"))
    /\ GateAborts("createClient", 3,
            Gate("Client", "False", "ClientCreated", "could not create client: " \o ErrText))

\* a failed gate is the last call of its pass apart from its own condition
\* patch: no later gate, no GetIp, no SetIp
NothingAfterFailedGate ==
    \A i \in 1..Len(pLog) :
        (pLog[i][1] \in {"GetSecret", "GetConfigMap", "ClientFactory"} /\ ~pLog[i][3]) =>
            /\ pPc = "done" /\ pResult.err
            /\ \A j \in (i + 1)..Len(pLog) : j = i + 1 /\ pLog[j][1] = "patch"

\* C19: on a Provider with no prior conditions, a pass that aborts at the
\* Secret fetch returns an error and leaves one condition (Secret False), one
\* that aborts at the ConfigMap fetch leaves two (Secret True, ConfigMap
\* False), one that aborts at client construction leaves three with Client
\* False and "could not create client: <err>"; no later gate runs and GetIp
\* and SetIp are not called.  The conditions are the stored ones whenever
\* the status patch of the failing gate went through.
C19_GateStructure ==
    /\ [][GateStructure]_vars
    /\ []NothingAfterFailedGate

\* the first pass on a new Provider failed at client construction and its
\* three conditions are stored
C19_Witness ==
    /\ pPc = "done"
    /\ PCalled("ClientFactory", FALSE)
    /\ pFaults = 1 /\ pMem.generation = 1
    /\ \A t \in {"Secret", "ConfigMap", "Client"} :
            \E i \in 1..Len(pLog) : pLog[i] = <<"patch", t, TRUE>>
    /\ Len(providers[pReq].status.conditions) = 3
    /\ providers[pReq].status.conditions[3] =
            Gate("Client", "False", "ClientCreated", "could not create client: " \o ErrText)

\* a patch of the status field was issued in the pass
PPatched(field) == \E i \in 1..Len(pLog) : pLog[i][1] = "patch" /\ pLog[i][2] = field

\* the pass is over with the error of GetIp; the discovered public IP is the
\* stored status.publicIP; providerIP and observedGeneration were not
\* written and SetIp was not called
GetIpFailureAborts ==
    PCalled("GetIp", FALSE) =>
        /\ pPc = "done"
        /\ pResult.err /\ ~pResult.requeue /\ pResult.requeueAfter = 0
        /\ pLog[Len(pLog)][1] = "GetIp"
        /\ PCalled("IPProvider", TRUE)
        /\ providers[pReq].status.publicIP = pPublicIp
        /\ ~PPatched("providerIP") /\ ~PPatched("observedGeneration")
        /\ providers[pReq].status.providerIP = pMem.status.providerIP
        /\ providers[pReq].status.observedGeneration = pMem.status.observedGeneration
        /\ PCalls("SetIp") = <<>>

\* the failing call writes nothing
GetIpFailureWritesNothing ==
    (pPc = "getIp" /\ pPc' = "done") => providers' = providers /\ dnsIP' = dnsIP

\* C21: when GetIp fails, the pass returns the error, the discovered public
\* IP is already stored in status.publicIP, status.providerIP and
\* observedGeneration stay as they were and SetIp is not called.
C21_GetIpFailure ==
    /\ []GetIpFailureAborts
    /\ [][GetIpFailureWritesNothing]_vars

\* GetIp failed in the pass that stored a new public IP
C21_Witness ==
    /\ pPc = "done"
    /\ PCalled("GetIp", FALSE)
    /\ \E i \in 1..Len(pLog) : pLog[i] = <<"patch", "publicIP", TRUE>>
    /\ providers[pReq].status.publicIP = "2.2.2.2"
    /\ providers[pReq].status.providerIP = "1.1.1.1"

\* the pass is over with the error of SetIp; the stored providerIP is what
\* GetIp reported, which is not the public IP, and observedGeneration was not
\* written
SetIpFailureAborts ==
    PCalled("SetIp", FALSE) =>
        /\ pPc = "done"
        /\ pResult.err /\ ~pResult.requeue /\ pResult.requeueAfter = 0
        /\ pLog[Len(pLog)][1] = "SetIp"
        /\ PCalled("GetIp", TRUE)
        /\ providers[pReq].status.providerIP = pProviderIp
        /\ providers[pReq].status.providerIP # pPublicIp
        /\ providers[pReq].status.publicIP = pPublicIp
        /\ ~PPatched("observedGeneration")
        /\ providers[pReq].status.observedGeneration = pMem.status.observedGeneration

\* the failing call writes nothing, and the DNS record stays as it was
SetIpFailureWritesNothing ==
    (pPc = "setIp" /\ pPc' = "done") => providers' = providers /\ dnsIP' = dnsIP

\* C22: when SetIp fails, the pass returns the error without persisting
\* success: the stored status.providerIP stays the value GetIp reported,
\* never the public IP, and status.observedGeneration is not advanced.
C22_SetIpFailure ==
    /\ []SetIpFailureAborts
    /\ [][SetIpFailureWritesNothing]_vars

\* SetIp failed after the pass stored the providerIP that GetIp reported
C22_Witness ==
    /\ pPc = "done"
    /\ PCalled("SetIp", FALSE)
    /\ \E i \in 1..Len(pLog) : pLog[i] = <<"patch", "providerIP", TRUE>>
    /\ providers[pReq].status.providerIP # providers[pReq].status.publicIP
    /\ providers[pReq].status.observedGeneration < providers[pReq].generation

\* C23: every status patch that fails in a Provider pass (publicIP, the
\* conditions of the Secret, ConfigMap and Client steps, providerIP,
\* observedGeneration) ends the pass with that error; none is swallowed.
C23_NoPatchErrorSwallowed ==
    \A i \in 1..Len(pLog) :
        (pLog[i][1] = "patch" /\ ~pLog[i][3]) =>
            /\ pPc = "done"
            /\ pResult.err /\ ~pResult.requeue

\* what holds of it: a failed patch of publicIP, providerIP or
\* observedGeneration is the last call of its pass, which returns the error
C23_FieldPatchErrorsReturned ==
    \A i \in 1..Len(pLog) :
        (/\ pLog[i][1] = "patch"
         /\ pLog[i][2] \in {"publicIP", "providerIP", "observedGeneration"}
         /\ ~pLog[i][3]) =>
            /\ pPc = "done"
            /\ pResult.err /\ ~pResult.requeue
            /\ i = Len(pLog)

-----------------------------------------------------------------------------
(* Failures of the steps of a Notifier pass *)

\* C20: a Secret that cannot be fetched aborts the Notifier pass with an
\* error as in the Provider reconciler: the Secret condition is recorded
\* False, and the notifier factory, SendGreetings and SendNotification are
\* not invoked in that pass.
C20_SecretFailureAborts ==
    NCalled("GetSecret", "", FALSE) =>
        /\ \E i \in 1..Len(nMem.status.conditions) :
                /\ nMem.status.conditions[i].type = "Secret"
                /\ nMem.status.conditions[i].status = "False"
        /\ nPc = "done" => nResult.err
        /\ ~NInvoked("NotifierFactory", "")
        /\ ~NInvoked("SendGreetings", "")
        /\ \A p \in Providers : ~NInvoked("SendNotification", p)

\* what the code does keep of it: the condition is False, the pass ends
\* with an error, and no greeting or notification is sent
C20_SecretFailureEndsInError ==
    NCalled("GetSecret", "", FALSE) =>
        /\ \E i \in 1..Len(nMem.status.conditions) :
                /\ nMem.status.conditions[i].type = "Secret"
                /\ nMem.status.conditions[i].status = "False"
        /\ nPc = "done" => nResult.err
        /\ ~NInvoked("SendGreetings", "")
        /\ \A p \in Providers : ~NInvoked("SendNotification", p)

-----------------------------------------------------------------------------
(* The status patch engine *)

\* the status patches a step adds to the call log of its pass
PPatchesOfStep ==
    Len(SelectSeq(pLog', LAMBDA e : e[1] = "patch"))
        - Len(SelectSeq(pLog, LAMBDA e : e[1] = "patch"))

NPatchesOfStep == CountCalls(nLog', "patch") - CountCalls(nLog, "patch")

\* a step of the Provider pass that goes through PatchStatus
PPatchStep ==
    /\ pPc \in {"patchPublicIp", "fetchSecret", "fetchConfig", "createClient",
                "patchProviderIp", "patchSetProviderIp", "patchObservedGeneration"}
    /\ pPc' # pPc

\* a step of the Notifier pass that goes through patchStatus or PatchConditions
NPatchStep ==
    /\ nPc \in {"fetchConfig", "fetchSecret", "createNotifier", "sendGreetings",
                "patchIsReady", "notify"}
    /\ nLog' # nLog

\* PatchStatus: no change reported, no call, and object and store stay as
\* they are; a call is issued only for a mutation that changed the object
ProviderPatchIffChanged ==
    PPatchStep =>
        /\ PPatchesOfStep = 0 => pMem' = pMem /\ providers' = providers
        /\ PPatchesOfStep > 0 => pMem' # pMem \/ providers'[pReq] # providers[pReq]

\* patchStatus and PatchConditions of the Notifier, likewise
NotifierPatchIffChanged ==
    NPatchStep =>
        /\ NPatchesOfStep = 0 => nMem' = nMem /\ notifier' = notifier
        /\ NPatchesOfStep > 0 => nMem' # nMem \/ notifier' # notifier

\* C24: the status patch engine (PatchStatus, patchStatus, PatchConditions)
\* issues a status patch call if and only if the mutation reported a change;
\* a mutation that reports none leaves the in-memory object and the stored
\* object untouched.
C24_PatchIffChanged ==
    [][ProviderPatchIffChanged /\ NotifierPatchIffChanged]_vars

\* a Provider pass that skipped the patch of the public IP and patched the
\* provider IP, next to a Notifier pass that found nothing to patch
C24_Witness ==
    /\ PSucceeded
    /\ ~PPatched("publicIP")
    /\ PPatched("providerIP")
    /\ nPc = "done"
    /\ ~nResult.err
    /\ CountCalls(nLog, "patch") = 0

----------------------------------------------------------------------------
(* The stored condition lists *)

CountOfType(conds, type) == Cardinality({i \in 1..Len(conds) : conds[i].type = type})
ConditionOf(conds, type) == conds[FindStatusCondition(conds, type)]

\* one condition for each declared type and no other
OnePerDeclaredType(conds, types) ==
    /\ \A t \in TypesOf(types) : CountOfType(conds, t) = 1
    /\ Len(conds) = Len(types)

\* C25 as stated: a stored Provider or Notifier whose conditions have been
\* written holds exactly one condition for each declared type (ConfigMap,
\* Secret, Client).
C25_OneConditionPerType ==
    /\ \A p \in Providers :
            providers[p].status.conditions # <<>> =>
                OnePerDeclaredType(providers[p].status.conditions, ProviderConditionTypes)
    /\ notifier.status.conditions # <<>> =>
            OnePerDeclaredType(notifier.status.conditions, NotifierConditionTypes)

\* the stored Notifier: all declared types, once its conditions are written
NotifierConditionsComplete ==
    notifier.status.conditions # <<>> =>
        OnePerDeclaredType(notifier.status.conditions, NotifierConditionTypes)

\* the stored Provider: the evaluated types only, each at most once and
\* never a placeholder
ProviderConditionsEvaluatedOnly ==
    \A p \in Providers :
        LET conds == providers[p].status.conditions IN
        /\ \A i \in 1..Len(conds) :
                /\ conds[i].type \in TypesOf(ProviderConditionTypes)
                /\ CountOfType(conds, conds[i].type) = 1
                /\ conds[i].status \in {"True", "False"}

\* the step of the Notifier pass that evaluates a condition type
NEvaluates(type) ==
    CASE type = "ConfigMap" -> nPc = "fetchConfig"
      [] type = "Secret" -> nPc = "fetchSecret"
      [] type = "Client" -> nPc \in {"createNotifier", "sendGreetings", "notify"}

\* the conditions of a type that a list holds (none or one)
Held(conds, type) == {conds[i] : i \in {k \in 1..Len(conds) : conds[k].type = type}}

\* a Notifier condition takes a new value only in the step that evaluates
\* its type: any other step leaves the stored and the in-memory condition
\* as they were, copies one to the other, or brings in the Unknown
\* placeholder; and a stored condition never goes away
UnevaluatedIsUnknown ==
    \A t \in TypesOf(NotifierConditionTypes) :
        LET known == Held(notifier.status.conditions, t)
                        \cup Held(nMem.status.conditions, t)
                        \cup {Stamped(UnknownCondition(t), now)}
        IN /\ Held(notifier.status.conditions, t) # {} =>
                    Held(notifier'.status.conditions, t) # {}
           /\ ~NEvaluates(t) =>
                /\ Held(notifier'.status.conditions, t) \subseteq known
                /\ Held(nMem'.status.conditions, t) \subseteq known

\* C25, amended: the stored Notifier, once its conditions are written, holds
\* exactly one condition for each declared type, and a type its reconciler
\* has not evaluated is there with status Unknown; the stored Provider holds
\* at most one condition for each declared type, and only for the types its
\* reconciler has evaluated.
C25_ConditionsPerType ==
    /\ [](NotifierConditionsComplete /\ ProviderConditionsEvaluatedOnly)
    /\ [][UnevaluatedIsUnknown]_vars

\* the ConfigMap of the Notifier was evaluated, its Secret and Client were
\* not; the Provider has its Secret condition only
C25_Witness ==
    /\ OnePerDeclaredType(notifier.status.conditions, NotifierConditionTypes)
    /\ ConditionOf(notifier.status.conditions, "ConfigMap").status # "Unknown"
    /\ ConditionOf(notifier.status.conditions, "Secret") = Stamped(UnknownCondition("Secret"), now)
    /\ ConditionOf(notifier.status.conditions, "Client") = Stamped(UnknownCondition("Client"), now)
    /\ Len(providers["p1"].status.conditions) = 1
    /\ providers["p1"].status.conditions[1].type = "Secret"

----------------------------------------------------------------------------
(* The condition ledger: FillConditions and SetCondition *)

\* the step is a call of op on the ledger
LedgerStep(op) == Len(cCalls') = Len(cCalls) + 1 /\ cCalls'[Len(cCalls')].op = op
LastCall == cCalls[Len(cCalls)]
LastCallAfter == cCalls'[Len(cCalls')]

AbsentTypes(conds, types) == {t \in TypesOf(types) : Held(conds, t) = {}}

\* FillConditions keeps the list it found as a prefix, appends one
\* Unknown/Unknown condition for each declared type that was absent, and
\* returns true exactly when it appended one
FillInsertsUnknown ==
    LedgerStep("FillConditions") =>
        /\ SubSeq(cConds', 1, Len(cConds)) = cConds
        /\ Len(cConds') = Len(cConds) + Cardinality(AbsentTypes(cConds, LedgerTypes))
        /\ \A t \in AbsentTypes(cConds, LedgerTypes) :
                /\ CountOfType(cConds', t) = 1
                /\ ConditionOf(cConds', t).status = "Unknown"
                /\ ConditionOf(cConds', t).reason = "Unknown"
                /\ ConditionOf(cConds', t).message = "Unknown"
        /\ LastCallAfter.changed <=> AbsentTypes(cConds, LedgerTypes) # {}

\* a call of FillConditions right after one returns false and changes nothing,
\* whatever the clock reads by then
FillIsIdempotent ==
    (LedgerStep("FillConditions") /\ cCalls # <<>> /\ LastCall.op = "FillConditions") =>
        /\ ~LastCallAfter.changed
        /\ cConds' = cConds

\* C26: FillConditions inserts an Unknown/Unknown condition for every
\* declared type that is absent, never modifies or removes an existing
\* condition, returns true exactly when it inserted at least one, and is
\* idempotent: a second call returns false and changes nothing.
C26_FillConditions == [][FillInsertsUnknown /\ FillIsIdempotent]_vars

\* FillConditions was called twice in a row on a list that held an
\* evaluated condition: the first call inserted, the second did not
C26_Witness ==
    /\ Len(cCalls) = 2
    /\ cCalls[1].op = "FillConditions" /\ cCalls[1].changed
    /\ cCalls[2].op = "FillConditions" /\ ~cCalls[2].changed
    /\ cCalls[2].at > cCalls[1].at
    /\ Len(cConds) = 3
    /\ cConds[1].status = "True"

\* the condition of the call's type was absent before the call
Created == Held(cConds, LastCallAfter.type) = {}

\* status, reason, message or observedGeneration of the condition differ
\* before and after the call
FieldsChanged ==
    /\ ~Created
    /\ \E f \in {"status", "reason", "message", "observedGeneration"} :
            ConditionOf(cConds, LastCallAfter.type)[f] # ConditionOf(cConds', LastCallAfter.type)[f]

\* SetCondition returns true exactly when the condition was created or one
\* of its fields changed, and stamps lastTransitionTime exactly then; no
\* other condition is touched
SetReportsChange ==
    /\ LastCallAfter.changed <=> Created \/ FieldsChanged
    /\ LastCallAfter.changed =>
            ConditionOf(cConds', LastCallAfter.type).lastTransitionTime = now
    /\ ~LastCallAfter.changed => cConds' = cConds
    /\ \A t \in TypesOf(LedgerTypes) \ {LastCallAfter.type} :
            Held(cConds', t) = Held(cConds, t)

\* the call repeats the one before it: same type, same options
SetRepeated ==
    /\ cCalls # <<>>
    /\ LastCall.op = "SetCondition"
    /\ LastCall.type = LastCallAfter.type
    /\ LastCall.options = LastCallAfter.options

\* a repeated call returns false and leaves the list as it was
SetRepeatedChangesNothing ==
    SetRepeated => ~LastCallAfter.changed /\ cConds' = cConds

\* no two options of the list write different values to one field
Consistent(options) ==
    \A i, j \in 1..Len(options) :
        options[i].field = options[j].field => options[i].value = options[j].value

\* C27 as stated: SetCondition returns true if and only if the condition was
\* created or at least one of status, reason, message or observedGeneration
\* actually changed; lastTransitionTime is stamped exactly in that case; a
\* second call with the same options returns false and leaves the condition
\* and all other conditions unchanged. For every list of options.
C27_SetConditionAnyOptions ==
    [][LedgerStep("SetCondition") => SetReportsChange /\ SetRepeatedChangesNothing]_vars

\* C27, amended: the same, for lists of options that do not write two
\* different values to one field.
C27_SetCondition ==
    [][(LedgerStep("SetCondition") /\ Consistent(LastCallAfter.options)) =>
            SetReportsChange /\ SetRepeatedChangesNothing]_vars

\* SetCondition was called twice with the options of a reconciler, the clock
\* having advanced in between: the first call changed the condition, the
\* second did not, and the condition keeps the time of the first
C27_Witness ==
    /\ Len(cCalls) = 2
    /\ cCalls[1].op = "SetCondition" /\ cCalls[1].changed
    /\ cCalls[2].op = "SetCondition" /\ ~cCalls[2].changed
    /\ cCalls[2].type = cCalls[1].type
    /\ cCalls[2].options = cCalls[1].options
    /\ Len(cCalls[1].options) = 3
    /\ cCalls[2].at > cCalls[1].at
    /\ ConditionOf(cConds, cCalls[1].type).lastTransitionTime = cCalls[1].at

----------------------------------------------------------------------------
(* The watch of the Notifier controller on Providers *)

\* the Notifiers the refs of a Provider identify, by name and namespace
ReferencedNotifiers(p) ==
    {[name |-> NotifierRefs(p)[i].name, namespace |-> NotifierRefs(p)[i].namespace] :
        i \in 1..Len(NotifierRefs(p))}

\* C28: when a Provider changes, a reconcile request is enqueued for every
\* Notifier referenced by its notifierRefs, i.e. for the Notifier identified
\* by each ref's name and namespace, one request per ref.
C28_RequestPerRef ==
    [][\A p \in Providers :
          providers'[p] # providers[p] =>
              /\ Len(findObjectsForProvider(p)) = Len(NotifierRefs(p))
              /\ \A i \in 1..Len(NotifierRefs(p)) :
                    findObjectsForProvider(p)[i] =
                        [name |-> NotifierRefs(p)[i].name,
                         namespace |-> NotifierRefs(p)[i].namespace]
              /\ NotifierRequest \in ReferencedNotifiers(p) => nQueued']_vars

\* what the watch does: one request per ref, for the ref's name in the
\* namespace of the Provider; the Notifier is enqueued when one of them is
\* its own
C28_RequestInProviderNamespace ==
    [][\A p \in Providers :
          providers'[p] # providers[p] =>
              /\ Len(findObjectsForProvider(p)) = Len(NotifierRefs(p))
              /\ \A i \in 1..Len(NotifierRefs(p)) :
                    findObjectsForProvider(p)[i] =
                        [name |-> NotifierRefs(p)[i].name, namespace |-> ProviderNamespace(p)]
              /\ ProviderNamespace(p) = NotifierNamespace => nQueued']_vars

----------------------------------------------------------------------------
(* The watch of the Provider controller on Providers *)

Steady(p) == providers[p].status.observedGeneration = providers[p].generation
StatusWrite(p) == providers'[p].status # providers[p].status
AnnotationWrite(p) == providers'[p].annotations # providers[p].annotations

\* an update event triggers a pass only when the new object's
\* observedGeneration differs from its generation
TriggerNeedsGenerationGap ==
    \A p \in Providers :
        TriggersProviderPass(p) =>
            providers'[p].status.observedGeneration # providers'[p].generation

\* in the steady state a status patch or an annotation patch triggers none
SteadyStateIsQuiet ==
    \A p \in Providers :
        (UpdateEvent(p) /\ Steady(p) /\ (StatusWrite(p) \/ AnnotationWrite(p))) =>
            ~TriggersProviderPass(p)

\* a status write or an annotation write leaves metadata.generation alone
WritesKeepGeneration ==
    \A p \in Providers :
        (StatusWrite(p) \/ AnnotationWrite(p)) =>
            providers'[p].generation = providers[p].generation

\* C29: an update event on a Provider triggers a Provider pass only when
\* status.observedGeneration differs from metadata.generation; in the steady
\* state the reconciler's own status patches and the Notifier's annotation
\* patches cause no watch-triggered pass, and status writes never change
\* metadata.generation.
C29_WatchFilter ==
    [][TriggerNeedsGenerationGap /\ SteadyStateIsQuiet /\ WritesKeepGeneration]_vars

\* a Provider edited once and reconciled since (observedGeneration 2 of
\* generation 2) whose public IP was patched by the pass under way, and which
\* carries the marker of a Notifier
C29_Witness ==
    /\ pPc = "fetchSecret"
    /\ \E i \in 1..Len(pLog) : pLog[i] = <<"patch", "publicIP", TRUE>>
    /\ providers[pReq].generation = 2
    /\ providers[pReq].status.observedGeneration = 2
    /\ providers[pReq].annotations[OtherKey] # NoAnnotation

----------------------------------------------------------------------------
(* Writes of the two controllers to one Provider *)

\* a step of a Notifier that patches its marker on a Provider
MarkerPatchStep == \E p \in Providers : AnnotationWrite(p)

\* a marker patch leaves every status field of every Provider as stored
MarkerPatchKeepsStatus ==
    MarkerPatchStep => \A p \in Providers : providers'[p].status = providers[p].status

\* a status patch of the Provider reconciler leaves every annotation as stored
StatusPatchKeepsAnnotations ==
    PPatchStep => \A p \in Providers : providers'[p].annotations = providers[p].annotations

\* the marker patch of one Notifier leaves the marker of the other as stored
MarkersKeptApart ==
    \A p \in Providers :
        /\ (nPc = "patchAnnotation" /\ nLog' # nLog) =>
                providers'[p].annotations[OtherKey] = providers[p].annotations[OtherKey]
        /\ (AnnotationWrite(p) /\ nLog' = nLog) =>
                providers'[p].annotations[ThisKey] = providers[p].annotations[ThisKey]

\* C30: under every interleaving of a Provider pass with Notifier passes on
\* the same Provider, no write is lost: the Notifier's annotation patch never
\* alters or reverts a status field, a Provider status patch never alters or
\* reverts an annotation, and the annotation patches of different Notifiers
\* never overwrite each other's marker.
C30_NoLostWrite ==
    [][MarkerPatchKeepsStatus /\ StatusPatchKeepsAnnotations /\ MarkersKeptApart]_vars

\* the Notifier has patched its marker on a Provider from a snapshot that
\* was stale by then: since its List, the Provider reconciler had patched
\* the status and the other Notifier its marker, and both are still stored
C30_Witness ==
    \E i \in 1..Len(nList) :
        LET snapshot == nList[i].obj
            stored == providers[nList[i].name]
        IN /\ nIdx > i
           /\ nLog # <<>>
           /\ nLog[Len(nLog)] = LogEntry("patchAnnotation", nList[i].name,
                                         snapshot.status.providerIP, TRUE)
           /\ stored.annotations[ThisKey] = snapshot.status.providerIP
           /\ stored.annotations[OtherKey] # snapshot.annotations[OtherKey]
           /\ stored.annotations[OtherKey] # NoAnnotation
           /\ stored.status # snapshot.status

----------------------------------------------------------------------------
(* The message of a notification *)

InSyncMessage(providerIP, providerName) ==
    "Provider IP (" \o providerIP \o ") in sync with Public IP. From provider: ("
        \o providerName \o ")."

OutOfSyncMessage(providerIP, publicIp, providerName) ==
    "Provider IP (" \o providerIP \o ") out of sync with Public IP (" \o publicIp
        \o "). From provider: (" \o providerName \o ")."

\* the step calls SendNotification
SendStep == CountCalls(nLog', "SendNotification") = CountCalls(nLog, "SendNotification") + 1

\* the message of the call, against the Provider as List returned it
MessageTellsSync ==
    SendStep =>
        LET provider == nList[nIdx].obj
            name == nList[nIdx].name
            message == nMessages'[Len(nMessages')]
        IN /\ Len(nMessages') = Len(nMessages) + 1
           /\ provider.status.providerIP = provider.status.publicIP <=>
                    message = InSyncMessage(provider.status.providerIP, name)
           /\ provider.status.providerIP # provider.status.publicIP <=>
                    message = OutOfSyncMessage(provider.status.providerIP,
                                               provider.status.publicIP, name)

\* C31: the message passed to SendNotification is the in-sync form "Provider
\* IP (<providerIP>) in sync with Public IP. From provider: (<name>)."
\* exactly when the Provider's providerIP equals its publicIP as read in
\* that pass, and otherwise the out-of-sync form with both values.
C31_MessageForm == [][MessageTellsSync]_vars

\* the out-of-sync form was sent for a Provider that carries the marker of
\* an earlier send, made while its two addresses were the same
C31_Witness ==
    /\ nMessages = <<OutOfSyncMessage("2.2.2.2", "1.1.1.1", "p1")>>
    /\ providers["p1"].annotations[ThisKey] = "1.1.1.1"
    /\ providers["p1"].status.publicIP = "1.1.1.1"

(***************************************************************************)
(* network.GetPublicIp, called on its own                                  *)
(***************************************************************************)

\* how many of the six built-in endpoints the lookups go over
NumIpProviders == 2

ipProviders == SubSeq(<<"https://icanhazip.com", "https://api.ipify.org", "https://4.ident.me/",
                        "https://api.seeip.org", "http://www.trackip.net/ip", "http://ifconfig.me">>,
                      1, NumIpProviders)

CustomUrl == "https://myIpProvider.example.com"

\* what an endpoint sends back: an address, an address with white space
\* around it, a page that is no address, nothing
Bodies == {"1.1.1.1", " 2.2.2.2\n", "<html>502 Bad Gateway</html>", ""}

\* GetBody: the body, or an error when the request or the read failed
GetBodyError(url) == "http: Error while trying to fetch url: " \o url

Answers == {[ok |-> TRUE, body |-> b] : b \in Bodies} \cup {[ok |-> FALSE, body |-> ""]}

GetBody(answers, url) ==
    IF answers[url].ok
    THEN [body |-> answers[url].body, err |-> ""]
    ELSE [body |-> "", err |-> GetBodyError(url)]

\* strings.TrimSpace, on the bodies above
TrimSpace(body) == IF body = " 2.2.2.2\n" THEN "2.2.2.2" ELSE body

\* net.ParseIP gives the nil IP for a text that is no address, and the
\* String method of the nil IP gives "<nil>"
NilIP == "nil"

ParseIP(text) == IF text \in IPs THEN text ELSE NilIP

IPString(ip) == IF ip = NilIP THEN "<nil>" ELSE ip

NoProviderError == "could not retrieve a response from any of the providers"

\* shuffle: any order of the slice may come out
shuffle(slice) ==
    {[i \in 1..Len(slice) |-> slice[f[i]]] : f \in Permutations(1..Len(slice))}

\* the loop of GetPublicIp from the i-th endpoint of the shuffled slice on
RECURSIVE GetPublicIpFrom(_, _, _, _)
GetPublicIpFrom(currentIpProviders, answers, i, queried) ==
    IF i > Len(currentIpProviders)
    THEN [ip |-> "", err |-> NoProviderError, queried |-> queried]
    ELSE LET provider == currentIpProviders[i] IN
         IF provider = ""
         THEN GetPublicIpFrom(currentIpProviders, answers, i + 1, queried)
         ELSE LET got == GetBody(answers, provider) IN
              IF got.err # ""
              THEN GetPublicIpFrom(currentIpProviders, answers, i + 1, Append(queried, provider))
              ELSE [ip |-> IPString(ParseIP(TrimSpace(got.body))), err |-> "",
                    queried |-> Append(queried, provider)]

\* the outcomes GetPublicIp can have, one per order the shuffle produces
GetPublicIp(customIpProvider, answers) ==
    {GetPublicIpFrom(order, answers, 1, <<>>) : order \in shuffle(Append(ipProviders, customIpProvider))}

IpEndpoints == {ipProviders[i] : i \in 1..Len(ipProviders)} \cup {CustomUrl}

InitIp ==
    /\ InitWorkers
    /\ InitClock
    /\ providers = [p \in Providers |-> NewProvider(p = "p1")]
    /\ publicIP = "1.1.1.1"
    /\ dnsIP = [p \in Providers |-> "1.1.1.1"]
    /\ pFaults = 0
    /\ nFaults = 0
    /\ History({}, FALSE)
    /\ ipCustom \in {"", CustomUrl}
    /\ ipAnswers \in [IpEndpoints -> Answers]
    /\ ipQueried = <<>>
    /\ ipReturn = <<>>
    /\ cfConfig = <<>>
    /\ cfListed = <<>>
    /\ cfFailAt = 0
    /\ cfCalls = <<>>
    /\ cfReturn = <<>>

CallGetPublicIp ==
    /\ ipReturn = <<>>
    /\ \E r \in GetPublicIp(ipCustom, ipAnswers) :
        /\ ipQueried' = r.queried
        /\ ipReturn' = <<[ip |-> r.ip, err |-> r.err]>>
    /\ UNCHANGED <<nGreeted, ipCustom, ipAnswers, cfVars, cVars, pQuiet, nQuiet, wVars, envVars, storeVars, pVars,
                   nVars, qVars>>

SpecIp == InitIp /\ [][CallGetPublicIp]_vars

\* C32: when a custom IP provider URL is set, GetPublicIp queries that URL
\* first, and queries a built-in endpoint only if the custom one failed
C32_CustomUrlFirst ==
    (ipReturn # <<>> /\ ipCustom # "") =>
        /\ ipQueried[1] = ipCustom
        /\ Len(ipQueried) > 1 => ~ipAnswers[ipCustom].ok

\* C40: GetPublicIp returns either an error or a syntactically valid IP
\* address; a body that is not an IP makes it move to the next endpoint
C40_ErrorOrValidIp ==
    ipReturn # <<>> =>
        \/ ipReturn[1].err # ""
        \/ ipReturn[1].ip \in IPs

(***************************************************************************)
(* clients.CloudflareClient.SetIp, called on its own                       *)
(***************************************************************************)

\* the last API call of SetIp that may be made to fail
MaxCfFailAt == 5

Record(name, proxied) == [name |-> name, proxied |-> proxied]

Zone(name, records) == [name |-> name, records |-> records]

DNSRecord(id, name, type) == [id |-> id, name |-> name, type |-> type]

ZoneNames == {"example.com", "example.org"}

\* Config.Cloudflare.Zones: no zone, a zone without records, one and two
\* records, a record named twice, two zones
CloudflareConfigs ==
    {<<>>,
     <<Zone("example.com", <<>>)>>,
     <<Zone("example.com", <<Record("test", FALSE)>>)>>,
     <<Zone("example.com", <<Record("test", FALSE), Record("test2", TRUE)>>)>>,
     <<Zone("example.com", <<Record("test", FALSE), Record("test", TRUE)>>)>>,
     <<Zone("example.com", <<Record("test2", TRUE)>>), Zone("example.org", <<Record("test", FALSE)>>)>>}

\* what ListDNSRecords returns for a zone: nothing, the configured names,
\* a name that is not configured, and two records of different type under
\* one name
Listings ==
    {<<>>,
     <<DNSRecord("r1", "test", "A")>>,
     <<DNSRecord("r1", "test", "A"), DNSRecord("r2", "test2", "A")>>,
     <<DNSRecord("r1", "test", "A"), DNSRecord("r3", "does-not-exist", "A")>>,
     <<DNSRecord("r1", "test", "A"), DNSRecord("r4", "test", "TXT")>>}

\* the errors the API returns
ApiError(op) ==
    CASE op = "ZoneIDByName" -> "zone not found"
      [] op = "ListDNSRecords" -> "error listing dns records"
      [] op = "UpdateDNSRecord" -> "error updating dns record"

ApiCallOf(op, zone, id, content, proxied) ==
    [op |-> op, zone |-> zone, id |-> id, content |-> content, proxied |-> proxied]

\* one call of the API: it is made unless an error was returned before, and
\* it fails when it is the failAt-th call
ApiCall(st, failAt, call) ==
    IF st.err # "" THEN st
    ELSE IF Len(st.calls) + 1 = failAt
         THEN [calls |-> Append(st.calls, [call |-> call, ok |-> FALSE]), err |-> ApiError(call.op)]
         ELSE [calls |-> Append(st.calls, [call |-> call, ok |-> TRUE]), err |-> ""]

\* faulty variant: only A records are updated
UpdatesRecord_OnlyA(r, record) == r.type = "A" /\ r.name = record.name

\* setIpForRecord: the test on a listed record
UpdatesRecord(r, record) == r.name = record.name

\* setIpForRecord: the loop over the listed records, from the i-th on
RECURSIVE UpdateListed(_, _, _, _, _, _, _)
UpdateListed(st, failAt, ip, zone, record, records, i) ==
    IF st.err # "" \/ i > Len(records) THEN st
    ELSE UpdateListed(IF UpdatesRecord(records[i], record)
                      THEN ApiCall(st, failAt,
                                   ApiCallOf("UpdateDNSRecord", zone.name, records[i].id, ip, record.proxied))
                      ELSE st,
                      failAt, ip, zone, record, records, i + 1)

\* setIpForRecord: ListDNSRecords of the zone, then the updates
setIpForRecord(st, failAt, listed, ip, zone, record) ==
    LET st1 == ApiCall(st, failAt, ApiCallOf("ListDNSRecords", zone.name, "", "", FALSE))
    IN IF st1.err # "" THEN st1
       ELSE UpdateListed(st1, failAt, ip, zone, record, listed[zone.name], 1)

\* setIpForZone: the loop over zone.Records, from the i-th on
RECURSIVE SetRecords(_, _, _, _, _, _)
SetRecords(st, failAt, listed, ip, zone, i) ==
    IF st.err # "" \/ i > Len(zone.records) THEN st
    ELSE SetRecords(setIpForRecord(st, failAt, listed, ip, zone, zone.records[i]),
                    failAt, listed, ip, zone, i + 1)

\* setIpForZone: ZoneIDByName, then the records of the zone
setIpForZone(st, failAt, listed, ip, zone) ==
    LET st1 == ApiCall(st, failAt, ApiCallOf("ZoneIDByName", zone.name, "", "", FALSE))
    IN IF st1.err # "" THEN st1
       ELSE SetRecords(st1, failAt, listed, ip, zone, 1)

\* SetIp: the loop over Config.Cloudflare.Zones, from the i-th on
RECURSIVE SetZones(_, _, _, _, _, _)
SetZones(st, failAt, listed, ip, zones, i) ==
    IF st.err # "" \/ i > Len(zones) THEN st
    ELSE SetZones(setIpForZone(st, failAt, listed, ip, zones[i]), failAt, listed, ip, zones, i + 1)

\* SetIp: the API calls it makes and the error it returns
SetIp(zones, listed, failAt, ip) ==
    SetZones([calls |-> <<>>, err |-> ""], failAt, listed, ip, zones, 1)

InitCloudflare ==
    /\ InitWorkers
    /\ InitClock
    /\ providers = [p \in Providers |-> NewProvider(p = "p1")]
    /\ publicIP = "1.1.1.1"
    /\ dnsIP = [p \in Providers |-> "1.1.1.1"]
    /\ pFaults = 0
    /\ nFaults = 0
    /\ History({}, FALSE)
    /\ ipCustom = ""
    /\ ipAnswers = <<>>
    /\ ipQueried = <<>>
    /\ ipReturn = <<>>
    /\ cfConfig \in CloudflareConfigs
    /\ cfListed \in [ZoneNames -> Listings]
    /\ cfFailAt \in 0..MaxCfFailAt
    /\ cfCalls = <<>>
    /\ cfReturn = <<>>

CallSetIp(ip) ==
    /\ cfReturn = <<>>
    /\ \E r \in {SetIp(cfConfig, cfListed, cfFailAt, ip)} :
        /\ cfCalls' = r.calls
        /\ cfReturn' = <<[ip |-> ip, err |-> r.err]>>
    /\ UNCHANGED <<nGreeted, cfConfig, cfListed, cfFailAt, ipVars, cVars, pQuiet, nQuiet, wVars, envVars, storeVars,
                   pVars, nVars, qVars>>

SpecCloudflare == InitCloudflare /\ [][\E ip \in IPs : CallSetIp(ip)]_vars

----------------------------------------------------------------------------
(* The status patches of a first pass *)

FirstPassPatches ==
    <<"publicIP", "Secret", "ConfigMap", "Client", "providerIP", "providerIP", "observedGeneration">>

\* the status patch calls of the pass so far, and the fields they were for
PatchCalls(log) == SelectSeq(log, LAMBDA e : e[1] = "patch")

PatchFields(log) == [i \in 1..Len(PatchCalls(log)) |-> PatchCalls(log)[i][2]]

IsPrefix(s, t) == Len(s) <= Len(t) /\ \A i \in 1..Len(s) : s[i] = t[i]

\* no call other than a patch has failed in the pass so far
OtherCallsOk(log) == \A i \in 1..Len(log) : log[i][1] # "patch" => log[i][3]

LoggedArg(log, call) == log[CHOOSE i \in 1..Len(log) : log[i][1] = call][2]

\* the provider's answer, once there is one, is not the discovered public IP
ProviderIpDiffers(log) ==
    (\E i \in 1..Len(log) : log[i][1] = "GetIp") =>
        LoggedArg(log, "GetIp") # LoggedArg(log, "IPProvider")

FieldPatches == {"publicIP", "providerIP", "observedGeneration"}

FieldPatchesOk(log) == \A i \in 1..Len(log) : (log[i][1] = "patch" /\ log[i][2] \in FieldPatches) => log[i][3]

\* the calls of a whole first pass
FirstPassCalls ==
    <<<<"IPProvider", "">>, <<"patch", "publicIP">>,
      <<"GetSecret", "">>, <<"patch", "Secret">>,
      <<"GetConfigMap", "">>, <<"patch", "ConfigMap">>,
      <<"ClientFactory", "">>, <<"patch", "Client">>,
      <<"GetIp", "">>, <<"patch", "providerIP">>,
      <<"SetIp", "">>, <<"patch", "providerIP">>,
      <<"patch", "observedGeneration">>>>

CallOrder(log) ==
    [i \in 1..Len(log) |-> <<log[i][1], IF log[i][1] = "patch" THEN log[i][2] ELSE "">>]

\* the patches come in the order of FirstPassPatches, between the calls they
\* follow, and none is left out once the Provider was fetched
PatchesInOrder ==
    (OtherCallsOk(pLog) /\ ProviderIpDiffers(pLog)) =>
        /\ IsPrefix(CallOrder(pLog), FirstPassCalls)
        /\ IsPrefix(PatchFields(pLog), FirstPassPatches)
        /\ (pPc = "done" /\ Len(pLog) > 0 /\ FieldPatchesOk(pLog)) => PatchFields(pLog) = FirstPassPatches

\* the 5th patch stores what GetIp returned, the 6th the public IP that
\* SetIp was called with
PatchedValues ==
    (OtherCallsOk(pLog) /\ ProviderIpDiffers(pLog) /\ Len(pLog) > 0 /\ pLog[Len(pLog)] = <<"patch", "providerIP", TRUE>>) =>
        /\ Len(PatchCalls(pLog)) = 5 => providers[pReq].status.providerIP = LoggedArg(pLog, "GetIp")
        /\ Len(PatchCalls(pLog)) = 6 =>
            /\ providers[pReq].status.providerIP = LoggedArg(pLog, "SetIp")
            /\ providers[pReq].status.providerIP = providers[pReq].status.publicIP

\* a failed patch of providerIP or observedGeneration (the 5th, 6th and 7th
\* patch) is the last call of the pass, and the pass returns the error
LatePatchFailureAborts ==
    \A i \in 1..Len(pLog) :
        (pLog[i][1] = "patch" /\ pLog[i][2] \in {"providerIP", "observedGeneration"} /\ ~pLog[i][3]) =>
            /\ i = Len(pLog)
            /\ pPc = "done"
            /\ pResult = ErrResult

\* C33: in a first pass on a fresh Provider whose provider-reported IP
\* differs from the public IP the status patches are issued in the order
\* publicIP, Secret, ConfigMap, Client, providerIP, providerIP,
\* observedGeneration; a failure of the 5th, 6th or 7th patch ends the pass
\* with that error before any later step runs
C33_FirstPassPatchOrder ==
    /\ PatchesInOrder
    /\ PatchedValues
    /\ LatePatchFailureAborts

\* all seven patches were issued and the last one failed
C33_Witness ==
    /\ pPc = "done"
    /\ PatchFields(pLog) = FirstPassPatches
    /\ OtherCallsOk(pLog)
    /\ ~PatchCalls(pLog)[7][3]
    /\ \A i \in 1..6 : PatchCalls(pLog)[i][3]
    /\ pResult = ErrResult
    /\ providers[pReq].status.observedGeneration = 0

----------------------------------------------------------------------------
(* The observedGeneration of the Notifier *)

NotifierGenerationWritten ==
    notifier'.status.observedGeneration # notifier.status.observedGeneration

SendsOk(log) == \A i \in 1..Len(log) : log[i].call = "SendNotification" => log[i].ok

\* the stored observedGeneration changes only in the last step of a pass
\* that began ready, sent no greeting and had no failed notification
NotifierGenerationWrittenLast ==
    NotifierGenerationWritten =>
        /\ nPc = "notify"
        /\ nIdx > Len(nList)
        /\ nPc' = "done"
        /\ nResult' = EmptyResult
        /\ nReadyAtStart
        /\ CountCalls(nLog', "SendGreetings") = 0
        /\ SendsOk(nLog')
        /\ notifier'.status.observedGeneration = notifier.generation

\* no step of a pass that has sent the greeting, or that ends with an error,
\* changes it
GreetingOrErrorKeepsGeneration ==
    (CountCalls(nLog', "SendGreetings") > 0 \/ nResult'.err) => ~NotifierGenerationWritten

\* C34: the stored status.observedGeneration of the Notifier is written only
\* as the last step of a pass that started ready and in which every
\* attempted notification succeeded; a pass that sends the greeting or
\* aborts on an error leaves it unchanged
C34_ObservedGenerationLast ==
    /\ [][NotifierGenerationWrittenLast]_vars
    /\ [][GreetingOrErrorKeepsGeneration]_vars

\* a pass that began ready and notified of a change has stored the generation
C34_Witness ==
    /\ nPc = "done"
    /\ nReadyAtStart
    /\ CountCalls(nLog, "SendNotification") = 1
    /\ SendsOk(nLog)
    /\ nLog[Len(nLog)] = LogEntry("patch", "observedGeneration", "", TRUE)
    /\ notifier.status.observedGeneration = notifier.generation

----------------------------------------------------------------------------
(* The API calls of Cloudflare SetIp *)

RECURSIVE Flatten(_)
Flatten(seqs) == IF seqs = <<>> THEN <<>> ELSE Head(seqs) \o Flatten(Tail(seqs))

\* the listed records of a zone that carry a name, in the order of the list
ListedAs(zoneName, name) == SelectSeq(cfListed[zoneName], LAMBDA r : r.name = name)

\* the calls of a SetIp in which no call fails: per configured zone the
\* lookup, per configured record the list and one update per listed record
\* of that name
CallsForRecord(zone, record, ip) ==
    <<ApiCallOf("ListDNSRecords", zone.name, "", "", FALSE)>>
    \o [k \in 1..Len(ListedAs(zone.name, record.name)) |->
            ApiCallOf("UpdateDNSRecord", zone.name, ListedAs(zone.name, record.name)[k].id, ip,
                      record.proxied)]

CallsForZone(zone, ip) ==
    <<ApiCallOf("ZoneIDByName", zone.name, "", "", FALSE)>>
    \o Flatten([j \in 1..Len(zone.records) |-> CallsForRecord(zone, zone.records[j], ip)])

ExpectedCalls(ip) == Flatten([i \in 1..Len(cfConfig) |-> CallsForZone(cfConfig[i], ip)])

CallsMade == [i \in 1..Len(cfCalls) |-> cfCalls[i].call]

\* how often a listed record was updated, and how often its name is
\* configured in its zone
UpdatesOf(zoneName, id) ==
    Cardinality({i \in 1..Len(cfCalls) :
        cfCalls[i].call.op = "UpdateDNSRecord" /\ cfCalls[i].call.zone = zoneName /\ cfCalls[i].call.id = id})

ConfiguredTimes(zoneName, name) ==
    Cardinality({ij \in UNION {{<<i, j>> : j \in 1..Len(cfConfig[i].records)} : i \in 1..Len(cfConfig)} :
        /\ cfConfig[ij[1]].name = zoneName
        /\ cfConfig[ij[1]].records[ij[2]].name = name})

SetIpReturned == cfReturn # <<>>

\* C35 as stated: exactly one UpdateDNSRecord call for every listed record
\* whose name is a configured record name of its configured zone, none for
\* the other listed records
C35_OneUpdatePerListedRecord ==
    (SetIpReturned /\ cfReturn[1].err = "") =>
        \A zoneName \in ZoneNames : \A k \in 1..Len(cfListed[zoneName]) :
            LET r == cfListed[zoneName][k] IN
            UpdatesOf(zoneName, r.id) = IF ConfiguredTimes(zoneName, r.name) > 0 THEN 1 ELSE 0

\* C35, amended: SetIp issues one UpdateDNSRecord call per configured record
\* and listed record of that name (whatever its type), none for other
\* listed records, in configuration order, and stops at the first failed
\* zone lookup, list or update, returning its error unchanged
C35_SetIpCalls ==
    SetIpReturned =>
        /\ IsPrefix(CallsMade, ExpectedCalls(cfReturn[1].ip))
        /\ \A i \in 1..Len(cfCalls) : ~cfCalls[i].ok => i = Len(cfCalls)
        /\ cfReturn[1].err = "" =>
            /\ CallsMade = ExpectedCalls(cfReturn[1].ip)
            /\ \A i \in 1..Len(cfCalls) : cfCalls[i].ok
            /\ \A zoneName \in ZoneNames : \A k \in 1..Len(cfListed[zoneName]) :
                UpdatesOf(zoneName, cfListed[zoneName][k].id)
                    = ConfiguredTimes(zoneName, cfListed[zoneName][k].name)
        /\ cfReturn[1].err # "" =>
            /\ Len(cfCalls) > 0
            /\ ~cfCalls[Len(cfCalls)].ok
            /\ cfReturn[1].err = ApiError(cfCalls[Len(cfCalls)].call.op)

\* two zones were served: the record of the first zone was updated, a TXT
\* record of the configured name in the second zone was updated as well, the
\* record that is not configured was left alone
C35_Witness ==
    /\ SetIpReturned
    /\ cfReturn[1].err = ""
    /\ Len(cfConfig) = 2
    /\ UpdatesOf("example.com", "r2") = 1
    /\ UpdatesOf("example.org", "r1") = 1
    /\ UpdatesOf("example.org", "r4") = 1
    /\ cfListed["example.com"] = <<DNSRecord("r1", "test", "A"), DNSRecord("r2", "test2", "A")>>
    /\ UpdatesOf("example.com", "r1") = 0

----------------------------------------------------------------------------
(* Which Providers a Notifier serves *)

\* the Provider has a notifierRef with the name and the namespace of the
\* Notifier of the pass
IdentifiesThisNotifier(provider) ==
    \E i \in 1..Len(provider.notifierRefs) : provider.notifierRefs[i] = NotifierRequest

ThisMarkerWritten(p) == providers'[p].annotations[ThisKey] # providers[p].annotations[ThisKey]

ServesOnlyItsProviders ==
    /\ SendStep => IdentifiesThisNotifier(nList[nIdx].obj)
    /\ \A p \in Providers : ThisMarkerWritten(p) => IdentifiesThisNotifier(providers[p])

\* C36: a Notifier sends change notifications, and writes its marker, only
\* for Providers that have a notifierRef with its name and its namespace; a
\* Provider that refers to a Notifier of the same name in another namespace
\* causes neither
C36_OnlyReferencedByNameAndNamespace == [][ServesOnlyItsProviders]_vars

----------------------------------------------------------------------------
(* Greeting once *)

GreetingStep == CountCalls(nLog', "SendGreetings") = CountCalls(nLog, "SendGreetings") + 1

\* C37 as stated: once SendGreetings has succeeded it is not invoked again
\* unless a SendNotification failed in between, even when a status write
\* fails
C37_GreetingNotRepeated == [][GreetingStep => nGreeted \notin {"sent", "stored"}]_vars

GreetedOnceStored ==
    /\ GreetingStep => (nGreeted # "stored" /\ ~notifier.status.isReady)
    /\ (nGreeted = "stored" /\ nGreeted' = "stored") => notifier'.status.isReady

\* C37, amended: once SendGreetings has succeeded and isReady = true has
\* been stored after it, isReady stays stored and SendGreetings is not
\* invoked again unless a SendNotification failed in between, whatever
\* status write fails later
C37_GreetingNotRepeatedOnceStored == [][GreetedOnceStored]_vars

\* after the stored greeting a later pass has notified and then failed to
\* write observedGeneration; it sent no greeting
C37_Witness ==
    /\ nGreeted = "stored"
    /\ nPc = "done"
    /\ nReadyAtStart
    /\ nResult.err
    /\ CountCalls(nLog, "SendGreetings") = 0
    /\ CountCalls(nLog, "SendNotification") = 1
    /\ nLog[Len(nLog)] = LogEntry("patch", "observedGeneration", "", FALSE)

----------------------------------------------------------------------------
(* A failed send in a pass over several Providers *)

\* the step calls SendNotification and the call fails
FailedSendStep ==
    /\ SendStep
    /\ \E i \in (Len(nLog) + 1)..Len(nLog') : nLog'[i].call = "SendNotification" /\ ~nLog'[i].ok

\* the successful sends of the pass so far
SentInPass == {i \in 1..Len(nLog) : nLog[i].call = "SendNotification" /\ nLog[i].ok}

\* the failed send writes no marker, the markers of the Providers served
\* before it in the pass are stored, and the pass is over
FailedSendKeepsMarkers ==
    FailedSendStep =>
        /\ providers' = providers
        /\ providers[nList[nIdx].name].annotations[ThisKey] = nList[nIdx].obj.annotations[ThisKey]
        /\ \A i \in SentInPass : providers'[nLog[i].p].annotations[ThisKey] = nLog[i].ip
        /\ nPc' = "done"
        /\ nResult' = ErrResult

\* nothing is sent and no marker is written after a failed send of the pass
NothingAfterFailedSend ==
    \A i \in 1..Len(nLog) :
        (nLog[i].call = "SendNotification" /\ ~nLog[i].ok) =>
            /\ nPc = "done"
            /\ \A j \in (i + 1)..Len(nLog) : nLog[j].call \notin {"SendNotification", "patchAnnotation"}

\* a Provider whose marker holds its providerIP is not notified again
MarkedIsSkipped ==
    SendStep =>
        nList[nIdx].obj.annotations[ThisKey] # nList[nIdx].obj.status.providerIP

\* C38: when the send for one Provider of a pass fails, the Providers served
\* earlier in the pass keep their stored markers and are not notified again
\* on the retry, no later Provider is attempted in the pass, and the marker
\* of the failing Provider is unchanged
C38_FailedSendAmongSeveral ==
    /\ [][FailedSendKeepsMarkers]_vars
    /\ [][MarkedIsSkipped]_vars
    /\ []NothingAfterFailedSend

\* p1 was notified and marked, the send for p2 failed
C38_Witness ==
    /\ nPc = "done"
    /\ Len(nList) = 2
    /\ nIdx = 2
    /\ \E i \in 1..Len(nLog) : nLog[i] = LogEntry("SendNotification", "p1", "1.1.1.1", TRUE)
    /\ nLog[Len(nLog)].call # "SendNotification"
    /\ \E i \in 1..Len(nLog) : nLog[i] = LogEntry("SendNotification", "p2", "1.1.1.1", FALSE)
    /\ providers["p1"].annotations[ThisKey] = "1.1.1.1"
    /\ providers["p2"].annotations[ThisKey] = NoAnnotation

----------------------------------------------------------------------------
(* Quiescence *)

\* the step writes a status or an annotation, sets the IP at the DNS
\* provider, or sends a greeting or a notification
WriteOrSendStep ==
    \/ PPatchesOfStep > 0
    \/ NPatchesOfStep > 0
    \/ CountCalls(nLog', "patchAnnotation") > CountCalls(nLog, "patchAnnotation")
    \/ SendStep
    \/ GreetingStep
    \/ providers' # providers
    \/ notifier' # notifier
    \/ dnsIP' # dnsIP

NotifierAtRest == nPc = "idle" /\ ~nQueued

\* C39: without failures and without a further change of public IP, spec,
\* Secret or ConfigMap the two controllers reach, after finitely many
\* watch-triggered passes, a state from which on no pass patches a status,
\* patches an annotation or sends; the status writes of the Notifier and its
\* annotation writes on Providers do not trigger each other for ever
C39_Quiescence ==
    /\ <>[][~WriteOrSendStep]_vars
    /\ <>[]NotifierAtRest

\* the Notifier has greeted, notified of p1 and marked it, has rewritten its
\* Client condition in the pass its own writes triggered, and is at rest; the
\* Provider passes that still come write nothing
C39_Witness ==
    /\ NotifierAtRest
    /\ notifier.status.isReady
    /\ notifier.status.observedGeneration = notifier.generation
    /\ providers["p1"].annotations[ThisKey] = "2.2.2.2"
    /\ providers["p1"].status.providerIP = "2.2.2.2"
    /\ \A p \in Providers : providers[p].status.observedGeneration = providers[p].generation
    /\ dnsIP["p1"] = "2.2.2.2"
    /\ pPc = "done"
    /\ pResult = RequeueAfterResult
    /\ PatchCalls(pLog) = <<>>

====
